---- MODULE Spec2Model ----
(***************************************************************************)
(* Model of the workflow graph compiler (app/graph_compiler.py), the node  *)
(* registry (app/node_registry.py) and the execution engine                *)
(* (app/workflow_runner_v2.py).                                            *)
(*                                                                         *)
(* Python values are records [t, s]: t is the Python type, s the content.  *)
(* A str is a sequence of tokens; the token ":" is the colon character and *)
(* every other token is a colon-free piece of text, so that building a     *)
(* "$from:..." reference is concatenation and parsing it is a split on the *)
(* colon token.  A dict is a function whose DOMAIN is its key set.         *)
(***************************************************************************)
EXTENDS Integers, Sequences, FiniteSets, TLC

VARIABLES
    flow,         \* the workflow given to compile_workflow / execute_workflow_v2
    pc,           \* position of the caller: "start", "running", "returned",
                  \* "raised" when the call ended with an exception
    compilation,  \* result of compile_workflow(flow)
    dry_run,      \* argument of execute_workflow_v2
    resume_from,  \* argument of execute_workflow_v2
    force_rerun,  \* argument of execute_workflow_v2
    run_no,       \* how many times execute_workflow_v2 was called on flow
    idx,          \* index in the plan of the step the loop handles next
    skip_until,   \* local skip_until
    context,      \* local context: nodeId -> (output name -> value)
    memo,         \* local memo: idempotency key -> handler result
    results,      \* local results list
    ret,          \* value returned by the call (NoReturn while running)
    calls,        \* history: handler invocations, in order, over all calls
    frames,       \* calls in flight at the same time: call -> its position,
                  \* plan, loop index, skip_until, return value and the
                  \* handler results it was given
    heap,         \* calls in flight at the same time: the context, memo and
                  \* results objects each call created
    helper_args,  \* a helper called on its own: its name and arguments
    helper_out,   \* a helper called on its own: what it returned or wrote
    kahn          \* compile_workflow followed statement by statement: the
                  \* locals ordered, queue and in_degree of its while loop

vars == <<flow, pc, compilation, dry_run, resume_from, force_rerun, run_no,
          idx, skip_until, context, memo, results, ret, calls, frames, heap,
          helper_args, helper_out, kahn>>

\* the locals of the while loop before compile_workflow has created them
NotSorting == <<>>

-----------------------------------------------------------------------------
(* Python values *)

Str(s) == [t |-> "str", s |-> s]
None == [t |-> "none", s |-> <<>>]

\* what stands for the value of a key that the mapping does not have
Missing == [t |-> "missing", s |-> <<>>]

\* the number 0, which stands for every value that is falsy without being
\* None or the empty string (0, False, an empty list)
Zero == [t |-> "int", s |-> <<>>]

\* bool(v): None, the empty string and 0 are falsy
Truthy(v) == v.t = "str" /\ v.s # <<>>

EmptyDict == [k \in {} |-> None]

\* d[k] = v on a copy
Put(d, k, v) == [x \in DOMAIN d \cup {k} |-> IF x = k THEN v ELSE d[x]]

\* {k: f(k) for k in keys} written with explicit pairs
Dict1(k1, v1) == [x \in {k1} |-> v1]
Dict2(k1, v1, k2, v2) == [x \in {k1, k2} |-> IF x = k1 THEN v1 ELSE v2]

Range(s) == {s[i] : i \in DOMAIN s}

\* position of the first occurrence of x in s, 0 if absent
RECURSIVE IndexFrom(_, _, _)
IndexFrom(s, x, i) ==
    IF i > Len(s) THEN 0
    ELSE IF s[i] = x THEN i
    ELSE IndexFrom(s, x, i + 1)

IndexOf(s, x) == IndexFrom(s, x, 1)

-----------------------------------------------------------------------------
(* node_registry.py: the built-in contracts *)

NoSpec ==
    [required |-> <<>>, optional |-> EmptyDict, outputs |-> <<>>,
     registered |-> FALSE]

\* NodeSpec(required=req, optional=opt, outputs=outs)
Contract(req, opt, outs) ==
    [required |-> req, optional |-> opt, outputs |-> outs, registered |-> TRUE]

\* the defaults of the optional inputs
DefaultParent == Str(<<"/Actor-Mixer Hierarchy/Default Work Unit">>)
Sfx == Str(<<"SFX">>)
OutputBusName == Str(<<"OutputBus">>)
WaqlReturns == [t |-> "list", s |-> <<"id", "name", "type">>]

\* NodeRegistry.get over the registry filled by _register_builtin_nodes
RegistryGet(node_type) ==
    CASE node_type = "createSound" ->
            Contract(<<"name">>, Dict1("parentPath", DefaultParent),
                     <<"objectId", "name", "path">>)
      [] node_type = "audioImport" ->
            Contract(<<"objectId", "filePath">>, Dict1("language", Sfx), <<>>)
      [] node_type = "setReference" ->
            Contract(<<"objectId", "valuePath">>,
                     Dict1("reference", OutputBusName), <<>>)
      [] node_type = "projectSave" ->
            Contract(<<>>, EmptyDict, <<"saved">>)
      [] node_type = "queryWAQL" ->
            Contract(<<"waql">>, Dict1("returns", WaqlReturns), <<"results">>)
      [] node_type = "setProperty" ->
            Contract(<<"objectId", "property", "value">>, EmptyDict, <<>>)
      [] OTHER -> NoSpec

\* NodeRegistry.validate_node_data: the list "missing"
ValidateMissing(node_type, data) ==
    LET spec == RegistryGet(node_type)
    IN  SelectSeq(spec.required,
                  LAMBDA f : \/ f \notin DOMAIN data
                             \/ data[f] = None
                             \/ data[f] = Str(<<>>))

-----------------------------------------------------------------------------
(* graph_compiler.py *)

NoError == [code |-> "", nodeId |-> None, suggestions |-> {}]

\* CompilationError(code, message, node_id); the suggested node ids are the
\* part of the message the model keeps
CompilationError(code, node_id, suggestions) ==
    [code |-> code, nodeId |-> node_id, suggestions |-> suggestions]

\* node_map = {n["id"]: n for n in nodes} raises KeyError on a node without id
NodeWithoutId(nodes) == \E i \in DOMAIN nodes : nodes[i].id = Missing

\* an element of the edge list that is no mapping (a string, a number): it
\* has no get method
NotAMapping == [source |-> [t |-> "other", s |-> <<>>],
                target |-> [t |-> "other", s |-> <<>>]]

\* mutant of IsMapping: every element of the edge list is taken for a mapping
IsMappingAlways(edge) == TRUE

IsMapping(edge) == edge # NotAMapping

\* node_map = {n["id"]: n for n in nodes}: the last node with the id wins
NodeMapKeys(nodes) == {nodes[i].id : i \in DOMAIN nodes}

NodeMap(nodes, id) ==
    LET last == CHOOSE i \in DOMAIN nodes :
                    /\ nodes[i].id = id
                    /\ \A j \in DOMAIN nodes : nodes[j].id = id => j <= i
    IN  nodes[last]

\* mutant of EdgeError: no test "if not source or not target"
RECURSIVE EdgeErrorNoInvalid(_, _, _)
EdgeErrorNoInvalid(nodes, edges, i) ==
    IF i > Len(edges) THEN NoError
    ELSE LET source == edges[i].source
             target == edges[i].target
         IN  IF ~IsMapping(edges[i])
                 THEN CompilationError("COMPILATION_FAILED", None, {})
             ELSE IF source \notin NodeMapKeys(nodes)
                 THEN CompilationError("UNKNOWN_NODE", source, {})
             ELSE IF target \notin NodeMapKeys(nodes)
                 THEN CompilationError("UNKNOWN_NODE", target, {})
             ELSE EdgeErrorNoInvalid(nodes, edges, i + 1)

\* the loop over the edges: the first edge that raises decides the error
RECURSIVE EdgeError(_, _, _)
EdgeError(nodes, edges, i) ==
    IF i > Len(edges) THEN NoError
    ELSE LET source == edges[i].source
             target == edges[i].target
         IN  IF ~IsMapping(edges[i])
                 THEN \* edge.get raises AttributeError
                      CompilationError("COMPILATION_FAILED", None, {})
             ELSE IF ~Truthy(source) \/ ~Truthy(target)
                 THEN CompilationError("INVALID_EDGE", None, {})
             ELSE IF source \notin NodeMapKeys(nodes)
                 THEN CompilationError("UNKNOWN_NODE", source, {})
             ELSE IF target \notin NodeMapKeys(nodes)
                 THEN CompilationError("UNKNOWN_NODE", target, {})
             ELSE EdgeError(nodes, edges, i + 1)

\* graph[source]: the targets of the edges leaving source, in edge order
Successors(edges, source) ==
    LET out == SelectSeq(edges, LAMBDA e : e.source = source)
    IN  [i \in DOMAIN out |-> out[i].target]

\* keep the first occurrence of every element
Dedup(s) ==
    LET first == {i \in DOMAIN s : \A j \in 1..(i - 1) : s[j] # s[i]}
    IN  [p \in 1..Cardinality(first) |->
            s[CHOOSE i \in first : Cardinality({j \in first : j < i}) = p - 1]]

\* the keys of in_degree in insertion order: edge targets, then the other nodes
InDegreeKeys(nodes, edges) ==
    Dedup([i \in DOMAIN edges |-> edges[i].target]
              \o [i \in DOMAIN nodes |-> nodes[i].id])

\* in_degree after the edge loop and the initialisation loop
InDegree(nodes, edges) ==
    [id \in Range(InDegreeKeys(nodes, edges)) |->
        Cardinality({i \in DOMAIN edges : edges[i].target = id})]

\* mutant of Relax: the neighbour is queued also when one edge to it is left
RECURSIVE RelaxAtOne(_, _, _, _)
RelaxAtOne(neighbors, j, indeg, queue) ==
    IF j > Len(neighbors) THEN [indeg |-> indeg, queue |-> queue]
    ELSE LET n == neighbors[j]
             d == indeg[n] - 1
         IN  RelaxAtOne(neighbors, j + 1, [indeg EXCEPT ![n] = d],
                        IF d \in {0, 1} THEN Append(queue, n) ELSE queue)

\* for neighbor in graph[current]: decrement, enqueue at zero
RECURSIVE Relax(_, _, _, _)
Relax(neighbors, j, indeg, queue) ==
    IF j > Len(neighbors) THEN [indeg |-> indeg, queue |-> queue]
    ELSE LET n == neighbors[j]
             d == indeg[n] - 1
         IN  Relax(neighbors, j + 1, [indeg EXCEPT ![n] = d],
                   IF d = 0 THEN Append(queue, n) ELSE queue)

\* mutant of KahnLoop: ordered.insert(0, current) instead of append
RECURSIVE KahnLoopPrepend(_, _, _, _)
KahnLoopPrepend(queue, ordered, indeg, edges) ==
    IF queue = <<>> THEN ordered
    ELSE LET current == Head(queue)
             r == Relax(Successors(edges, current), 1, indeg, Tail(queue))
         IN  KahnLoopPrepend(r.queue, <<current>> \o ordered, r.indeg, edges)

\* while queue: popleft, append to ordered, relax the successors
RECURSIVE KahnLoop(_, _, _, _)
KahnLoop(queue, ordered, indeg, edges) ==
    IF queue = <<>> THEN ordered
    ELSE LET current == Head(queue)
             r == Relax(Successors(edges, current), 1, indeg, Tail(queue))
         IN  KahnLoop(r.queue, Append(ordered, current), r.indeg, edges)

\* mutant of Toposort: the queue starts with every node, whatever its in-degree
ToposortAllQueued(nodes, edges) ==
    KahnLoop(InDegreeKeys(nodes, edges), <<>>, InDegree(nodes, edges), edges)

\* mutant of Toposort: from the second call on, the nodes without incoming
\* edge are queued in the opposite order
ToposortByCall(nodes, edges) ==
    LET indeg == InDegree(nodes, edges)
        queue == SelectSeq(InDegreeKeys(nodes, edges), LAMBDA id : indeg[id] = 0)
        back == [i \in DOMAIN queue |-> queue[Len(queue) + 1 - i]]
    IN  KahnLoop(IF run_no = 0 THEN queue ELSE back, <<>>, indeg, edges)

\* Toposort (Kahn's algorithm): the list "ordered"
Toposort(nodes, edges) ==
    LET indeg == InDegree(nodes, edges)
        queue == SelectSeq(InDegreeKeys(nodes, edges), LAMBDA id : indeg[id] = 0)
    IN  KahnLoop(queue, <<>>, indeg, edges)

\* every output name a registered type declares
AllOutputs == {"objectId", "name", "path", "saved", "results"}

\* _build_output_map: output name -> ids of the nodes whose type declares it
BuildOutputMap(ordered, nodes) ==
    LET prod(f) == {id \in Range(ordered) :
                        f \in Range(RegistryGet(NodeMap(nodes, id).type).outputs)}
    IN  [f \in {g \in AllOutputs : prod(g) # {}} |-> prod(f)]

\* producers.get(field, set())
ProducersGet(producers, field) ==
    IF field \in DOMAIN producers THEN producers[field] ELSE {}

\* mutant of FormatRef: the "$output" segment is left out
FormatRefNoOutput(source_id, field) ==
    Str(<<"$from", ":">> \o source_id.s \o <<":">> \o <<field>>)

\* f"$from:{source_id}:$output:{required_field}"
FormatRef(source_id, field) ==
    Str(<<"$from", ":">> \o source_id.s \o <<":", "$output", ":">> \o <<field>>)

\* mutant of FirstProducerEdge: no break, the last matching edge wins
RECURSIVE LastProducerEdge(_, _, _, _)
LastProducerEdge(incoming, i, producers, field) ==
    IF i > Len(incoming) THEN 0
    ELSE LET later == LastProducerEdge(incoming, i + 1, producers, field)
         IN  IF later # 0 THEN later
             ELSE IF incoming[i].source \in ProducersGet(producers, field) THEN i
             ELSE 0

\* the inner loop of _resolve_inputs: index of the first incoming edge whose
\* source produces the field, 0 if none
RECURSIVE FirstProducerEdge(_, _, _, _)
FirstProducerEdge(incoming, i, producers, field) ==
    IF i > Len(incoming) THEN 0
    ELSE IF incoming[i].source \in ProducersGet(producers, field) THEN i
    ELSE FirstProducerEdge(incoming, i + 1, producers, field)

\* the outer loop of _resolve_inputs over spec.required
RECURSIVE ResolveInputsFrom(_, _, _, _, _)
ResolveInputsFrom(resolved, incoming, producers, required, k) ==
    IF k > Len(required) THEN resolved
    ELSE LET field == required[k]
             e == FirstProducerEdge(incoming, 1, producers, field)
             next == IF field \in DOMAIN resolved /\ Truthy(resolved[field])
                         THEN resolved
                     ELSE IF e = 0 THEN resolved
                     ELSE Put(resolved, field, FormatRef(incoming[e].source, field))
         IN  ResolveInputsFrom(next, incoming, producers, required, k + 1)

\* mutant of ResolveInputs: the defaults of the optional inputs are filled in
\* where the data has no value for them
ResolveInputsWithDefaults(node_data, incoming, producers, spec) ==
    LET filled == [k \in DOMAIN node_data \cup DOMAIN spec.optional |->
                      IF k \in DOMAIN node_data THEN node_data[k]
                      ELSE spec.optional[k]]
    IN  ResolveInputsFrom(filled, incoming, producers, spec.required, 1)

\* _resolve_inputs(node_id, node_data, incoming_edges, producers, spec)
ResolveInputs(node_data, incoming, producers, spec) ==
    ResolveInputsFrom(node_data, incoming, producers, spec.required, 1)

\* mutant of SuggestConnections: the current node is not discarded
SuggestConnectionsKeepSelf(missing, producers, current_node) ==
    UNION {ProducersGet(producers, missing[i]) : i \in DOMAIN missing}

\* _suggest_connections(missing_fields, producers, current_node)
SuggestConnections(missing, producers, current_node) ==
    UNION {ProducersGet(producers, missing[i]) : i \in DOMAIN missing}
        \ {current_node}

\* the body of the loop "for node_id in ordered": the data after auto-wiring
ResolvedData(nodes, edges, producers, node_id) ==
    LET node == NodeMap(nodes, node_id)
    IN  ResolveInputs(node.data,
                      SelectSeq(edges, LAMBDA e : e.target = node_id),
                      producers, RegistryGet(node.type))

\* mutant of StepError: the type of the node is not looked up
StepErrorTypeUnchecked(nodes, edges, producers, node_id) ==
    LET node == NodeMap(nodes, node_id)
        missing == ValidateMissing(node.type,
                                   ResolvedData(nodes, edges, producers, node_id))
    IN  IF missing # <<>>
            THEN CompilationError("MISSING_INPUT", node_id,
                                  SuggestConnections(missing, producers, node_id))
        ELSE NoError

\* the error the loop body raises for node_id, NoError if it appends a step
StepError(nodes, edges, producers, node_id) ==
    LET node == NodeMap(nodes, node_id)
        missing == ValidateMissing(node.type,
                                   ResolvedData(nodes, edges, producers, node_id))
    IN  IF ~RegistryGet(node.type).registered
            THEN CompilationError("UNKNOWN_NODE_TYPE", node_id, {})
        ELSE IF missing # <<>>
            THEN CompilationError("MISSING_INPUT", node_id,
                                  SuggestConnections(missing, producers, node_id))
        ELSE NoError

\* the step the loop body appends to the plan
PlanStep(nodes, edges, producers, node_id) ==
    LET node == NodeMap(nodes, node_id)
        spec == RegistryGet(node.type)
    IN  [nodeId |-> node_id,
         type |-> node.type,
         data |-> ResolvedData(nodes, edges, producers, node_id),
         spec |-> [required |-> spec.required, outputs |-> spec.outputs]]

\* mutant of CycleDetected: the lengths compared with > instead of !=
CycleDetectedGreater(ordered, nodes) == Len(ordered) > Len(nodes)

\* if len(ordered) != len(nodes)
CycleDetected(ordered, nodes) == Len(ordered) # Len(nodes)

\* mutant of CompileFailed: the error list is left empty
CompileFailedNoErrors(error) ==
    [ok |-> FALSE, plan |-> <<>>, errors |-> <<>>, warnings |-> <<>>]

\* mutant of CompileFailed: the error is reported with ok=true
CompileFailedStillOk(error) ==
    [ok |-> TRUE, plan |-> <<>>, errors |-> <<error>>, warnings |-> <<>>]

\* the value returned by the two except clauses
CompileFailed(error) ==
    [ok |-> FALSE, plan |-> <<>>, errors |-> <<error>>, warnings |-> <<>>]

\* compile_workflow(flow)
compile_workflow(f) ==
    LET nodes == f.nodes
        edges == f.edges
        edgeError == EdgeError(nodes, edges, 1)
        ordered == Toposort(nodes, edges)
        producers == BuildOutputMap(ordered, nodes)
        failing == {i \in DOMAIN ordered :
                        StepError(nodes, edges, producers, ordered[i]) # NoError}
    IN  IF NodeWithoutId(nodes)
            THEN CompileFailed(CompilationError("COMPILATION_FAILED", None, {}))
        ELSE IF edgeError # NoError THEN CompileFailed(edgeError)
        ELSE IF CycleDetected(ordered, nodes)
            THEN CompileFailed(CompilationError("GRAPH_CYCLE", None, {}))
        ELSE IF failing # {}
            THEN LET first == CHOOSE i \in failing : \A j \in failing : i <= j
                 IN  CompileFailed(StepError(nodes, edges, producers, ordered[first]))
        ELSE [ok |-> TRUE,
              plan |-> [i \in DOMAIN ordered |->
                            PlanStep(nodes, edges, producers, ordered[i])],
              errors |-> <<>>,
              warnings |-> <<>>]

\* mutant of NodeDataAfter: _resolve_inputs writes into the dict it is given
\* and the loop hands it the data of the node itself
NodeDataAfterNoCopy(node_data, resolved) == resolved

\* node_data = dict(node.get("data", {})) and resolved = dict(node_data):
\* the references go to a copy, the dict of the node is what it was
NodeDataAfter(node_data, resolved) == node_data

\* the workflow the caller holds after compile_workflow(f) returned: the
\* plan loop has handled the nodes up to the first one that fails, and of
\* that one the data too unless its type is unknown
FlowAfterCompile(f) ==
    LET nodes == f.nodes
        edges == f.edges
        ordered == Toposort(nodes, edges)
        producers == BuildOutputMap(ordered, nodes)
        reached == /\ ~NodeWithoutId(nodes)
                   /\ EdgeError(nodes, edges, 1) = NoError
                   /\ ~CycleDetected(ordered, nodes)
        failing == {i \in DOMAIN ordered :
                        StepError(nodes, edges, producers, ordered[i]) # NoError}
        last == IF failing = {} THEN Len(ordered)
                ELSE CHOOSE i \in failing : \A j \in failing : i <= j
        handled(node) ==
            /\ reached
            /\ RegistryGet(node.type).registered
            /\ IndexOf(ordered, node.id) <= last
    IN  [f EXCEPT !.nodes =
            [i \in DOMAIN nodes |->
                IF handled(nodes[i])
                    THEN [nodes[i] EXCEPT !.data =
                             NodeDataAfter(@, ResolvedData(nodes, edges, producers,
                                                           nodes[i].id))]
                ELSE nodes[i]]]

\* mutant of StepDataAfter: the resolved values are written into the data
\* of the step
StepDataAfterInPlace(raw_data, resolved) == resolved

\* resolved = {} in _resolve_symbolic_refs: the values go to a new dict, the
\* data of the step is what it was
StepDataAfter(raw_data, resolved) == raw_data

-----------------------------------------------------------------------------
(* workflow_runner_v2.py: the helpers *)

\* value.split(":"): the pieces between the colons, empty pieces included
RECURSIVE SplitFrom(_, _, _, _)
SplitFrom(s, i, piece, parts) ==
    IF i > Len(s) THEN Append(parts, piece)
    ELSE IF s[i] = ":" THEN SplitFrom(s, i + 1, <<>>, Append(parts, piece))
    ELSE SplitFrom(s, i + 1, Append(piece, s[i]), parts)

Split(s) == SplitFrom(s, 1, <<>>, <<>>)

\* len(parts) != 4 or parts[2] != "$output"
BadFormat(parts) == Len(parts) # 4 \/ parts[3] # <<"$output">>

\* mutant of StartsWithFrom: a value with the marker that has not the four
\* segments is taken for a literal
StartsWithFromWellFormed(v) ==
    /\ v.t = "str" /\ Len(v.s) >= 2 /\ v.s[1] = "$from" /\ v.s[2] = ":"
    /\ ~BadFormat(Split(v.s))

\* value.startswith("$from:")
StartsWithFrom(v) ==
    v.t = "str" /\ Len(v.s) >= 2 /\ v.s[1] = "$from" /\ v.s[2] = ":"

\* the lookup of one "$from:" value raises KeyError
RefFails(v, ctx) ==
    LET parts == Split(v.s)
    IN  \/ BadFormat(parts)
        \/ Str(parts[2]) \notin DOMAIN ctx
        \/ Len(parts[4]) # 1
        \/ parts[4][1] \notin DOMAIN ctx[Str(parts[2])]

\* context[source_node][field_name]
RefValue(v, ctx) ==
    LET parts == Split(v.s)
    IN  ctx[Str(parts[2])][parts[4][1]]

\* "${timestamp}" in value / "${HHmmss}" in value
HasTemplate(v, template) == v.t = "str" /\ template \in Range(v.s)

\* value.replace(template, text)
Replace(v, template, text) ==
    Str([i \in DOMAIN v.s |-> IF v.s[i] = template THEN text ELSE v.s[i]])

\* _resolve_symbolic_refs raises KeyError
ResolveFails(data, ctx) ==
    \E key \in DOMAIN data : StartsWithFrom(data[key]) /\ RefFails(data[key], ctx)

\* _resolve_symbolic_refs(data, context) when it returns; now is the clock
ResolveSymbolicRefs(data, ctx, now) ==
    [key \in DOMAIN data |->
        IF StartsWithFrom(data[key]) THEN RefValue(data[key], ctx)
        ELSE IF HasTemplate(data[key], "${timestamp}")
            THEN Replace(data[key], "${timestamp}", now)
        ELSE IF HasTemplate(data[key], "${HHmmss}")
            THEN Replace(data[key], "${HHmmss}", now)
        ELSE data[key]]

\* _stable_dict(d)
StableDict(d) ==
    [k \in DOMAIN d \ {"timestamp", "executionId", "_internal"} |-> d[k]]

\* mutant of IdempotencyKey: the node id is left out of the payload
IdempotencyKeyNoNode(node_id, node_type, data) ==
    [nodeId |-> None, type |-> node_type, data |-> StableDict(data)]

\* _idempotency_key: the hash of the payload serialised with sorted keys,
\* modelled by the payload itself (equal payloads, equal keys)
IdempotencyKey(node_id, node_type, data) ==
    [nodeId |-> node_id, type |-> node_type, data |-> StableDict(data)]

\* the inner loop of _export_outputs_to_context over output_fields
RECURSIVE ExportFields(_, _, _, _)
ExportFields(entry, result_data, output_fields, k) ==
    IF k > Len(output_fields) THEN entry
    ELSE LET field == output_fields[k]
             next == IF field = "objectId" /\ "id" \in DOMAIN result_data
                         THEN Put(entry, field, result_data["id"])
                     ELSE IF field \in DOMAIN result_data
                         THEN Put(entry, field, result_data[field])
                     ELSE entry
         IN  ExportFields(next, result_data, output_fields, k + 1)

\* mutant of ExportOutputsToContext: the entry of the node is created only
\* when a declared output is found in the result data
ExportUnlessEmpty(node_id, result_data, output_fields, ctx) ==
    LET entry == IF node_id \in DOMAIN ctx THEN ctx[node_id] ELSE EmptyDict
        exported == ExportFields(entry, result_data, output_fields, 1)
    IN  IF exported = EmptyDict THEN ctx ELSE Put(ctx, node_id, exported)

\* mutant of ExportOutputsToContext: the whole result data becomes the entry
ExportWholeData(node_id, result_data, output_fields, ctx) ==
    Put(ctx, node_id, result_data)

\* _export_outputs_to_context(node_id, result_data, output_fields, context)
ExportOutputsToContext(node_id, result_data, output_fields, ctx) ==
    LET entry == IF node_id \in DOMAIN ctx THEN ctx[node_id] ELSE EmptyDict
    IN  Put(ctx, node_id, ExportFields(entry, result_data, output_fields, 1))

\* mutant of MemoHit: force_rerun is not looked at
MemoHitDespiteForce(force, key, memo_) == key \in DOMAIN memo_

\* if not force_rerun and idem_key in memo
MemoHit(force, key, memo_) == ~force /\ key \in DOMAIN memo_

\* mutant of SkipStep: the resumeFrom node is not recognised
SkipStepAlways(skip, node_id, resume) == skip

\* the resume logic: the step is skipped
SkipStep(skip, node_id, resume) == skip /\ node_id # resume

\* mutant of HandlerFailed: the check of the result is missing
HandlerFailedNever(result) == FALSE

\* mutant of HandlerFailed: only a handler that did not return stops the loop
HandlerFailedOnRaise(result) == result.raised

\* if not result.get("ok")
HandlerFailed(result) == ~result.ok

NoResult == [ok |-> FALSE, data |-> EmptyDict, raised |-> FALSE]

\* one entry of the results list; the flags say which Python keys it carries
ResultEntry(node_id, ok, what, code, result, key, data) ==
    [node |-> node_id, ok |-> ok, what |-> what, code |-> code,
     result |-> result, idemKey |-> key, data |-> data]

NoKey == [nodeId |-> None, type |-> "", data |-> EmptyDict]

SkippedEntry(node_id) ==
    ResultEntry(node_id, TRUE, "skipped", "", NoResult, NoKey, EmptyDict)

IdempotentEntry(node_id, key, cached) ==
    ResultEntry(node_id, TRUE, "idempotent", "", cached, key, EmptyDict)

ExecutedEntry(node_id, result, key, data) ==
    ResultEntry(node_id, result.ok, "executed", "", result, key, data)

FailedEntry(node_id, code) ==
    ResultEntry(node_id, FALSE, "failed", code, NoResult, NoKey, EmptyDict)

\* a value returned by execute_workflow_v2; keys is the key set of the dict
Returned(keys, ok, stopped, stopAt, res, errors, plan) ==
    [returned |-> TRUE, keys |-> keys, ok |-> ok, stopped |-> stopped,
     stopAt |-> stopAt, results |-> res, errors |-> errors, plan |-> plan]

NoReturn ==
    [returned |-> FALSE, keys |-> {}, ok |-> FALSE, stopped |-> FALSE,
     stopAt |-> None, results |-> <<>>, errors |-> <<>>, plan |-> <<>>]

\* mutant of FailResult: stopAt is left unset
FailResultNoStopAt(res, node_id) ==
    Returned({"ok", "stopped", "stopAt", "results"},
             FALSE, TRUE, None, res, <<>>, <<>>)

\* _fail_result(results, node_id, code, message), results already appended
FailResult(res, node_id) ==
    Returned({"ok", "stopped", "stopAt", "results"},
             FALSE, TRUE, node_id, res, <<>>, <<>>)

-----------------------------------------------------------------------------
(* The workflows the model is checked on *)

MaxNodes == 3       \* nodes of a graph whose shape is enumerated
MaxEdges == 3       \* edges of a graph whose shape is enumerated
MaxWireNodes == 3   \* nodes of a graph whose node contents are enumerated
MaxWireEdges == 2   \* edges of a graph whose node contents are enumerated
MaxBadNodes == 2    \* nodes of a graph with malformed parts
MaxBadEdges == 2    \* edges of a graph with malformed parts

\* the id of the node at each position; the second id contains a colon
IdTable == <<Str(<<"n1">>), Str(<<"a", ":", "b">>), Str(<<"n3">>),
             Str(<<"n4">>), Str(<<"n5">>), Str(<<"n6">>)>>

Foo == Str(<<"Foo">>)
Wav == Str(<<"a.wav">>)

\* type and data of a node
Kind(type, data) == [type |-> type, data |-> data]

KindPool ==
    { Kind("createSound", Dict1("name", Foo)),
      Kind("createSound", Dict1("name", Str(<<>>))),
      Kind("audioImport", Dict1("filePath", Wav)),
      Kind("bogusType", EmptyDict) }

Node(id, kind) == [id |-> id, type |-> kind.type, data |-> kind.data]

Edge(source, target) == [source |-> source, target |-> target]

Flow(nodes, edges) == [nodes |-> nodes, edges |-> edges]

PairEdges(k) == {Edge(IdTable[i], IdTable[j]) : i, j \in 1..k}

ForwardEdges(k) ==
    UNION {{Edge(IdTable[i], IdTable[j]) : j \in (i + 1)..k} : i \in 1..k}

BackwardEdges(k) == {Edge(e.target, e.source) : e \in ForwardEdges(k)}

\* graphs of k projectSave nodes with every edge list between them
IsTopoFlow(f) ==
    \E k \in 0..MaxNodes, n \in 0..MaxEdges :
        \E edges \in [1..n -> PairEdges(k)] :
            f = Flow([i \in 1..k |-> Node(IdTable[i], Kind("projectSave", EmptyDict))],
                     edges)

\* such graphs with few edges and the last node left out of the node list
IsDanglingFlow(f) ==
    \E k \in 1..MaxNodes, n \in 1..MaxWireEdges :
        \E edges \in [1..n -> PairEdges(k)] :
            f = Flow([i \in 1..(k - 1) |->
                         Node(IdTable[i], Kind("projectSave", EmptyDict))],
                     edges)

\* graphs of nodes of every kind, the edges all forward or all backward in
\* node-list order
IsWireFlow(f) ==
    \E k \in 1..MaxWireNodes, n \in 0..MaxWireEdges :
        \E kinds \in [1..k -> KindPool] :
            \E edges \in [1..n -> ForwardEdges(k)] \cup [1..n -> BackwardEdges(k)] :
                f = Flow([i \in 1..k |-> Node(IdTable[i], kinds[i])], edges)

\* an edge of a malformed graph: no mapping, or a mapping whose source and
\* target are absent (get returns None), the first id or an id that no node
\* has, or a mapping with an empty source or target
BadEdges ==
    LET ends == {None, IdTable[1], IdTable[MaxBadNodes + 1]}
    IN  {NotAMapping} \cup {Edge(x, y) : x, y \in ends}
            \cup {Edge(Str(<<>>), IdTable[1]), Edge(IdTable[1], Str(<<>>))}

\* graphs of projectSave nodes, the last one with or without id, with such
\* edges
IsMalformedFlow(f) ==
    \E k \in 1..MaxBadNodes, n \in 0..MaxBadEdges :
        \E last \in BOOLEAN, edges \in [1..n -> BadEdges] :
            f = Flow([i \in 1..k |->
                         Node(IF i < k \/ last THEN IdTable[i] ELSE Missing,
                              Kind("projectSave", EmptyDict))],
                     edges)

\* a createSound node followed by a node whose required field name or
\* objectId was given a value by the caller, with or without the edge that
\* the compiler could take the field from
IsSuppliedFlow(f) ==
    \E v \in {Zero, None, Str(<<>>), Foo}, wired \in BOOLEAN :
        \E kind \in {Kind("createSound", Dict1("name", v)),
                     Kind("audioImport", Dict2("objectId", v, "filePath", Wav))} :
            f = Flow(<<Node(IdTable[1], Kind("createSound", Dict1("name", Foo))),
                       Node(IdTable[3], kind)>>,
                     IF wired THEN <<Edge(IdTable[1], IdTable[3])>> ELSE <<>>)

\* a createSound node followed by a node whose data has a field that its
\* type does not require: an optional input, a field the type does not know,
\* a field named like an output of the first node, with or without the edge
ExtraKindPool ==
    { Kind("createSound", Dict2("name", Foo, "parentPath", Str(<<"/Sounds">>))),
      Kind("createSound", Dict2("name", Foo, "note", Str(<<>>))),
      Kind("audioImport", Dict2("filePath", Wav, "language", None)),
      Kind("audioImport", Dict2("filePath", Wav, "path", Str(<<>>))),
      Kind("audioImport",
           Put(Dict2("objectId", Zero, "filePath", Wav), "name", None)) }

IsExtraFlow(f) ==
    \E kind \in ExtraKindPool, wired \in BOOLEAN :
        f = Flow(<<Node(IdTable[1], Kind("createSound", Dict1("name", Foo))),
                   Node(IdTable[3], kind)>>,
                 IF wired THEN <<Edge(IdTable[1], IdTable[3])>> ELSE <<>>)

\* graphs of projectSave nodes in which an id occurs twice, with at most
\* one edge
IsDuplicateFlow(f) ==
    \E k \in 2..(MaxBadNodes + 1), n \in 0..1 :
        \E ids \in [1..k -> 1..(k - 1)], edges \in [1..n -> PairEdges(k - 1)] :
            f = Flow([i \in 1..k |->
                         Node(IdTable[ids[i]], Kind("projectSave", EmptyDict))],
                     edges)

IsCompileFlow(f) ==
    \/ IsTopoFlow(f) \/ IsDanglingFlow(f) \/ IsWireFlow(f) \/ IsMalformedFlow(f)
    \/ IsSuppliedFlow(f) \/ IsDuplicateFlow(f) \/ IsExtraFlow(f)

-----------------------------------------------------------------------------
(* The compile endpoint: one call of compile_workflow on a workflow *)

NotCompiled == [ok |-> FALSE, plan |-> <<>>, errors |-> <<>>, warnings |-> <<>>]

InitCompile ==
    /\ IsCompileFlow(flow)
    /\ pc = "start"
    /\ compilation = NotCompiled
    /\ dry_run = FALSE
    /\ resume_from = None
    /\ force_rerun = FALSE
    /\ run_no = 0
    /\ idx = 1
    /\ skip_until = FALSE
    /\ context = EmptyDict
    /\ memo = EmptyDict
    /\ results = <<>>
    /\ ret = NoReturn
    /\ calls = <<>>
    /\ frames = <<>>
    /\ heap = <<>>
    /\ helper_args = <<>>
    /\ helper_out = <<>>
    /\ kahn = NotSorting

\* compile_workflow_endpoint: result = compile_workflow(w.flow)
CompileEndpoint ==
    /\ pc = "start"
    /\ compilation' = compile_workflow(flow)
    /\ pc' = "compiled"
    /\ flow' = FlowAfterCompile(flow)
    /\ UNCHANGED <<helper_args, helper_out, kahn>>
    /\ UNCHANGED <<dry_run, resume_from, force_rerun, run_no, idx,
                   skip_until, context, memo, results, ret, calls, frames, heap>>

NextCompile == CompileEndpoint

SpecCompile == InitCompile /\ [][NextCompile]_vars

-----------------------------------------------------------------------------
(* Properties of a workflow graph, stated on the input alone *)

NodeIdsOf(f) == {f.nodes[i].id : i \in DOMAIN f.nodes}

\* every node has an id and no two nodes have the same
UniqueIds(f) ==
    /\ \A i \in DOMAIN f.nodes : f.nodes[i].id # Missing
    /\ \A i, j \in DOMAIN f.nodes : f.nodes[i].id = f.nodes[j].id => i = j

EdgesKnown(f) ==
    \A i \in DOMAIN f.edges :
        f.edges[i].source \in NodeIdsOf(f) /\ f.edges[i].target \in NodeIdsOf(f)

EdgeRel(f) == {<<f.edges[i].source, f.edges[i].target>> : i \in DOMAIN f.edges}

\* the transitive closure of a relation
RECURSIVE Closure(_)
Closure(R) ==
    LET step == R \cup UNION {{<<p[1], q[2]>> : q \in {x \in R : x[1] = p[2]}} :
                                 p \in R}
    IN  IF step = R THEN R ELSE Closure(step)

HasCycle(f) == \E n \in NodeIdsOf(f) : <<n, n>> \in Closure(EdgeRel(f))

PlanIds == [i \in DOMAIN compilation.plan |-> compilation.plan[i].nodeId]

\* every edge's source has its step before the step of its target
TopoOrdered(f) ==
    \A i \in DOMAIN f.edges :
        /\ IndexOf(PlanIds, f.edges[i].source) > 0
        /\ IndexOf(PlanIds, f.edges[i].source) < IndexOf(PlanIds, f.edges[i].target)

\* the plan holds every node id of the graph exactly once
EachNodeOnce(f) ==
    /\ Len(compilation.plan) = Len(f.nodes)
    /\ \A id \in NodeIdsOf(f) :
           Cardinality({i \in DOMAIN PlanIds : PlanIds[i] = id}) = 1

\* the index of the node with this id
IndexOfNode(f, id) == (CHOOSE i \in DOMAIN f.nodes : f.nodes[i].id = id)

Declares(type, field) == field \in Range(RegistryGet(type).outputs)

\* the field has a value that required-field validation accepts
Supplied(node, field) ==
    field \in DOMAIN node.data /\ node.data[field] \notin {None, Str(<<>>)}

\* the field is absent from the data or is the empty string
AbsentOrEmpty(node, field) ==
    field \notin DOMAIN node.data \/ node.data[field] = Str(<<>>)

\* the edges into the node whose source is a node of a type declaring the field
ProducerEdges(f, node, field) ==
    {i \in DOMAIN f.edges :
        /\ f.edges[i].target = node.id
        /\ f.edges[i].source \in NodeIdsOf(f)
        /\ Declares(f.nodes[IndexOfNode(f, f.edges[i].source)].type, field)}

Unsatisfied(f, node, field) ==
    ~Supplied(node, field) /\ ProducerEdges(f, node, field) = {}

MissingFields(f, node) ==
    {field \in Range(RegistryGet(node.type).required) : Unsatisfied(f, node, field)}

NodeOk(f, node) ==
    RegistryGet(node.type).registered /\ MissingFields(f, node) = {}

\* "$from:<sourceNodeId>:$output:<fieldName>"
Reference(source_id, field) ==
    Str(<<"$from", ":">> \o source_id.s \o <<":", "$output", ":", field>>)

Compiled == pc = "compiled"

-----------------------------------------------------------------------------
(* Claims on compile_workflow, checked under SpecCompile *)

\* C1 as stated: every acyclic graph with unique node ids and edges between
\* known nodes compiles to a plan as long as the node list, in an order in
\* which every edge's source precedes its target.
C1_AcyclicAlwaysPlans ==
    (Compiled /\ UniqueIds(flow) /\ EdgesKnown(flow) /\ ~HasCycle(flow))
        => /\ compilation.ok
           /\ Len(compilation.plan) = Len(flow.nodes)
           /\ TopoOrdered(flow)

\* C1 amended: an acyclic graph with unique node ids and edges between known
\* nodes, in which every node has a registered type and every required field
\* is supplied or declared as an output by the source of an incoming edge,
\* compiles to a plan as long as the node list, in an order in which every
\* edge's source precedes its target.
C1_AcyclicValidPlans ==
    (/\ Compiled /\ UniqueIds(flow) /\ EdgesKnown(flow) /\ ~HasCycle(flow)
     /\ \A i \in DOMAIN flow.nodes : NodeOk(flow, flow.nodes[i]))
        => /\ compilation.ok
           /\ Len(compilation.plan) = Len(flow.nodes)
           /\ TopoOrdered(flow)

\* a compiled three-node graph whose plan order differs from the node list
C1_Witness ==
    /\ Compiled /\ compilation.ok
    /\ Len(flow.nodes) = 3 /\ Len(flow.edges) >= 2
    /\ PlanIds # [i \in DOMAIN flow.nodes |-> flow.nodes[i].id]

\* C2: a graph (every node has an id, its edges join known nodes) that
\* contains a cycle, a self-loop included, is rejected with the single error
\* GRAPH_CYCLE and an empty plan.
C2_CycleRejected ==
    (Compiled /\ ~NodeWithoutId(flow.nodes) /\ EdgesKnown(flow) /\ HasCycle(flow))
        => /\ ~compilation.ok
           /\ compilation.plan = <<>>
           /\ Len(compilation.errors) = 1
           /\ compilation.errors[1].code = "GRAPH_CYCLE"

\* a rejected cycle through three nodes, none of them with a self-loop
C2_Witness ==
    /\ Compiled /\ EdgesKnown(flow) /\ HasCycle(flow)
    /\ \A i \in DOMAIN flow.edges : flow.edges[i].source # flow.edges[i].target
    /\ Cardinality(EdgeRel(flow)) = 3
    /\ \A n \in NodeIdsOf(flow) : <<n, n>> \in Closure(EdgeRel(flow))
    /\ Len(flow.nodes) = 3
    /\ ~compilation.ok

\* C3: whenever compile_workflow returns ok=true the graph is acyclic and
\* the plan holds every node id exactly once, every edge's source before
\* its target.
C3_OkImpliesTopological ==
    (Compiled /\ compilation.ok)
        => /\ ~HasCycle(flow)
           /\ EachNodeOnce(flow)
           /\ TopoOrdered(flow)

\* a compiled graph in which one node has edges from two different nodes
C3_Witness ==
    /\ Compiled /\ compilation.ok
    /\ \E i, j \in DOMAIN flow.edges :
           /\ flow.edges[i].target = flow.edges[j].target
           /\ flow.edges[i].source # flow.edges[j].source

\* C6: in a compiled plan, a required field that is absent or empty in the
\* node's data and that the source of some incoming edge declares as an
\* output holds exactly "$from:<source>:$output:<field>" for the source of
\* the first such edge of the edge list.
C6_AutoWireFirstEdge ==
    (Compiled /\ compilation.ok)
        => \A k \in DOMAIN compilation.plan :
              LET step == compilation.plan[k]
                  node == flow.nodes[IndexOfNode(flow, step.nodeId)]
              IN  \A field \in Range(RegistryGet(node.type).required) :
                      (AbsentOrEmpty(node, field)
                          /\ ProducerEdges(flow, node, field) # {})
                      => LET first == CHOOSE i \in ProducerEdges(flow, node, field) :
                                 \A j \in ProducerEdges(flow, node, field) : i <= j
                         IN  /\ field \in DOMAIN step.data
                             /\ step.data[field] =
                                    Reference(flow.edges[first].source, field)

\* an empty field wired from the first of two producing edges, whose source
\* comes second in the node list
C6_Witness ==
    /\ Compiled /\ compilation.ok
    /\ \E k \in DOMAIN compilation.plan :
           LET step == compilation.plan[k]
               node == flow.nodes[IndexOfNode(flow, step.nodeId)]
               prod == ProducerEdges(flow, node, "name")
           IN  /\ "name" \in DOMAIN node.data
               /\ node.data["name"] = Str(<<>>)
               /\ \E i, j \in prod :
                      /\ i < j
                      /\ \A h \in prod : i <= h
                      /\ flow.edges[i].source # flow.edges[j].source
                      /\ flow.edges[i].source = IdTable[2]
                      /\ step.data["name"] = Reference(IdTable[2], "name")

\* the nodes other than node whose type declares one of its missing fields
ExpectedSuggestions(f, node) ==
    {f.nodes[i].id : i \in {j \in DOMAIN f.nodes :
        /\ f.nodes[j].id # node.id
        /\ \E field \in MissingFields(f, node) : Declares(f.nodes[j].type, field)}}

\* C7 as stated: a node with a required field neither supplied nor produced
\* by the source of an incoming edge makes compilation fail with
\* MISSING_INPUT carrying that node's id, the suggestions being the other
\* nodes whose type declares one of the missing fields.
C7_MissingInputNamesNode ==
    Compiled =>
        \A i \in DOMAIN flow.nodes :
            LET node == flow.nodes[i]
            IN  (RegistryGet(node.type).registered /\ MissingFields(flow, node) # {})
                => /\ ~compilation.ok
                   /\ compilation.errors[1].code = "MISSING_INPUT"
                   /\ compilation.errors[1].nodeId = node.id
                   /\ compilation.errors[1].suggestions =
                          ExpectedSuggestions(flow, node)

\* the nodes the compiler visits before the node with this id
VisitedBefore(f, id) ==
    LET ordered == Toposort(f.nodes, f.edges)
    IN  {ordered[j] : j \in 1..(IndexOf(ordered, id) - 1)}

\* C7 amended: such a node always makes compilation fail with an empty
\* plan; the error is MISSING_INPUT carrying that node's id, the suggestions
\* being the other nodes whose type declares one of the missing fields,
\* when the node ids are unique, the edges join known nodes, the graph is
\* acyclic and no node earlier in the topological order has an unregistered
\* type or a missing required input of its own.
C7_MissingInputFirstNode ==
    Compiled =>
        \A i \in DOMAIN flow.nodes :
            LET node == flow.nodes[i]
            IN  (RegistryGet(node.type).registered /\ MissingFields(flow, node) # {})
                => /\ ~compilation.ok
                   /\ compilation.plan = <<>>
                   /\ (/\ UniqueIds(flow) /\ EdgesKnown(flow) /\ ~HasCycle(flow)
                       /\ \A id \in VisitedBefore(flow, node.id) :
                              NodeOk(flow, flow.nodes[IndexOfNode(flow, id)]))
                      => /\ Len(compilation.errors) = 1
                         /\ compilation.errors[1].code = "MISSING_INPUT"
                         /\ compilation.errors[1].nodeId = node.id
                         /\ compilation.errors[1].suggestions =
                                ExpectedSuggestions(flow, node)

\* MISSING_INPUT on a node whose own type declares the missing field, with
\* an unconnected producer of the field suggested
C7_Witness ==
    /\ Compiled /\ ~compilation.ok
    /\ compilation.errors[1].code = "MISSING_INPUT"
    /\ compilation.errors[1].suggestions # {}
    /\ \E i \in DOMAIN flow.nodes :
           /\ flow.nodes[i].id = compilation.errors[1].nodeId
           /\ \E field \in MissingFields(flow, flow.nodes[i]) :
                  Declares(flow.nodes[i].type, field)

-----------------------------------------------------------------------------
(* The execute endpoint: calls of execute_workflow_v2 on a workflow *)

MaxRunNodes == 3    \* nodes of a workflow that is executed
MaxRunEdges == 2    \* edges of a workflow that is executed
MaxRuns == 2        \* calls of execute_workflow_v2 on the same workflow

RunKindPool ==
    { Kind("createSound", Dict1("name", Foo)),
      Kind("audioImport", Dict1("filePath", Wav)) }

\* the edges i -> j of the set E listed in the order of their targets
\* and sources: one edge list for every subset of the forward edges
EdgeRank(e) == 10 * IndexOf(IdTable, e.target) + IndexOf(IdTable, e.source)

RECURSIVE SortedEdges(_)
SortedEdges(E) ==
    IF E = {} THEN <<>>
    ELSE LET e == CHOOSE x \in E : \A y \in E : EdgeRank(x) <= EdgeRank(y)
         IN  <<e>> \o SortedEdges(E \ {e})

\* graphs of createSound and audioImport nodes with forward edges
IsRunFlow(f) ==
    \E k \in 0..MaxRunNodes :
        \E kinds \in [1..k -> RunKindPool] :
            \E E \in {X \in SUBSET ForwardEdges(k) : Cardinality(X) <= MaxRunEdges} :
                f = Flow([i \in 1..k |-> Node(IdTable[i], kinds[i])], SortedEdges(E))

\* graphs that do not compile: createSound nodes with one edge that closes a
\* cycle, names a node that does not exist, lacks its source or is no
\* mapping, or with a last node of a type that is not registered
IsBrokenRunFlow(f) ==
    \E k \in 1..MaxRunNodes :
        LET sound == Kind("createSound", Dict1("name", Foo))
        IN  \/ \E e \in (PairEdges(k + 1) \ ForwardEdges(k))
                          \cup {Edge(None, IdTable[1]), NotAMapping} :
                   f = Flow([i \in 1..k |-> Node(IdTable[i], sound)], <<e>>)
            \/ f = Flow([i \in 1..k |->
                             Node(IdTable[i],
                                  IF i = k THEN Kind("bogusType", EmptyDict)
                                  ELSE sound)],
                        <<>>)

\* what a call of a handler (spec.run) can do: return an error, return a
\* result whose data has the id of the object, return a result without data,
\* or raise an exception instead of returning
Obj == Str(<<"obj1">>)

HandlerResults ==
    { [ok |-> FALSE, data |-> EmptyDict, raised |-> FALSE],
      [ok |-> TRUE, data |-> Dict1("id", Obj), raised |-> FALSE],
      [ok |-> TRUE, data |-> EmptyDict, raised |-> FALSE],
      [ok |-> FALSE, data |-> EmptyDict, raised |-> TRUE] }

\* the values of the wall clock
Clock == {"t1"}

Init ==
    /\ IsRunFlow(flow) \/ IsBrokenRunFlow(flow)
    /\ pc = "start"
    /\ compilation = NotCompiled
    /\ dry_run \in BOOLEAN
    /\ resume_from \in {None} \cup {IdTable[i] : i \in 1..(Len(flow.nodes) + 1)}
    /\ force_rerun \in BOOLEAN
    /\ run_no = 0
    /\ idx = 1
    /\ skip_until = FALSE
    /\ context = EmptyDict
    /\ memo = EmptyDict
    /\ results = <<>>
    /\ ret = NoReturn
    /\ calls = <<>>
    /\ frames = <<>>
    /\ heap = <<>>
    /\ helper_args = <<>>
    /\ helper_out = <<>>
    /\ kahn = NotSorting

\* mutant of IsDryRun: the dry_run argument is ignored
IsDryRunNever(dr) == FALSE

\* if dry_run
IsDryRun(dr) == dr

\* execute_workflow_endpoint calls execute_workflow_v2: the function from its
\* entry to the start of the loop over the plan; the client submits the
\* workflow once, and again after a call that returned ok.  The locals
\* context, results, memo and skip_until are created after the two early
\* returns only.
Call ==
    /\ pc = "start" \/ (pc = "returned" /\ ret.ok)
    /\ run_no < MaxRuns
    /\ run_no' = run_no + 1
    /\ compilation' = compile_workflow(flow)
    /\ IF ~compilation'.ok
           THEN /\ ret' = Returned({"ok", "stopped", "stopAt", "errors", "results"},
                                   FALSE, TRUE, None, <<>>, compilation'.errors, <<>>)
                /\ pc' = "returned"
                /\ UNCHANGED <<idx, skip_until, context, memo, results>>
       ELSE IF IsDryRun(dry_run)
           THEN /\ ret' = Returned({"ok", "dryRun", "plan", "results",
                                    "executionId", "timestamp"},
                                   TRUE, FALSE, None, <<>>, <<>>, compilation'.plan)
                /\ pc' = "returned"
                /\ UNCHANGED <<idx, skip_until, context, memo, results>>
       ELSE /\ ret' = NoReturn
            /\ pc' = "running"
            /\ idx' = 1
            /\ skip_until' = (resume_from # None)
            /\ context' = EmptyDict
            /\ memo' = EmptyDict
            /\ results' = <<>>
    /\ flow' = FlowAfterCompile(flow)
    /\ UNCHANGED <<helper_args, helper_out, kahn>>
    /\ UNCHANGED <<dry_run, resume_from, force_rerun, calls, frames, heap>>

\* one iteration of "for step in plan"; result is what the handler returns
\* if it is invoked, now the clock read by the template substitution
Iteration(result, now) ==
    LET step == compilation.plan[idx]
        node_id == step.nodeId
        node_type == step.type
        raw_data == step.data
        resolved_data == ResolveSymbolicRefs(raw_data, context, now)
        idem_key == IdempotencyKey(node_id, node_type, resolved_data)
    IN  IF SkipStep(skip_until, node_id, resume_from)
            THEN \* skipped: continue
                 /\ results' = Append(results, SkippedEntry(node_id))
                 /\ idx' = idx + 1
                 /\ UNCHANGED <<skip_until, context, memo, ret, pc, calls>>
        ELSE IF ResolveFails(raw_data, context)
            THEN \* KeyError: return _fail_result(... "RESOLUTION_FAILED" ...)
                 /\ results' = Append(results, FailedEntry(node_id, "RESOLUTION_FAILED"))
                 /\ ret' = FailResult(results', node_id)
                 /\ pc' = "returned"
                 /\ skip_until' = FALSE
                 /\ UNCHANGED <<idx, context, memo, calls>>
        ELSE IF MemoHit(force_rerun, idem_key, memo)
            THEN \* replay from the memo: continue
                 /\ results' = Append(results,
                                      IdempotentEntry(node_id, idem_key, memo[idem_key]))
                 /\ context' = IF memo[idem_key].ok
                                   THEN ExportOutputsToContext(node_id,
                                            memo[idem_key].data, step.spec.outputs,
                                            context)
                               ELSE context
                 /\ idx' = idx + 1
                 /\ skip_until' = FALSE
                 /\ UNCHANGED <<memo, ret, pc, calls>>
        ELSE IF ~RegistryGet(node_type).registered
            THEN \* return _fail_result(... "UNKNOWN_NODE_TYPE" ...)
                 /\ results' = Append(results, FailedEntry(node_id, "UNKNOWN_NODE_TYPE"))
                 /\ ret' = FailResult(results', node_id)
                 /\ pc' = "returned"
                 /\ skip_until' = FALSE
                 /\ UNCHANGED <<idx, context, memo, calls>>
        ELSE IF result.raised
            THEN \* spec.run(resolved_data, bus) raises: no handler around the
                 \* call, the exception leaves execute_workflow_v2
                 /\ calls' = Append(calls, [node |-> node_id, run |-> run_no,
                                            ok |-> FALSE])
                 /\ pc' = "raised"
                 /\ skip_until' = FALSE
                 /\ UNCHANGED <<idx, context, memo, results, ret>>
        ELSE \* result = spec.run(resolved_data, bus)
             /\ calls' = Append(calls, [node |-> node_id, run |-> run_no,
                                        ok |-> result.ok])
             /\ memo' = Put(memo, idem_key, result)
             /\ results' = Append(results,
                                  ExecutedEntry(node_id, result, idem_key, resolved_data))
             /\ skip_until' = FALSE
             /\ IF HandlerFailed(result)
                    THEN /\ ret' = Returned({"ok", "stopped", "stopAt", "results",
                                             "executionId", "timestamp"},
                                            FALSE, TRUE, node_id, results', <<>>, <<>>)
                         /\ pc' = "returned"
                         /\ UNCHANGED <<idx, context>>
                ELSE /\ context' = ExportOutputsToContext(node_id, result.data,
                                                          step.spec.outputs, context)
                     /\ idx' = idx + 1
                     /\ UNCHANGED <<ret, pc>>

\* the plan after the iteration: _resolve_symbolic_refs is called on the
\* data of the step unless the step is skipped
PlanAfterStep(now) ==
    LET step == compilation.plan[idx]
    IN  IF SkipStep(skip_until, step.nodeId, resume_from)
               \/ ResolveFails(step.data, context)
            THEN compilation
        ELSE [compilation EXCEPT
                 !.plan[idx].data =
                     StepDataAfter(@, ResolveSymbolicRefs(@, context, now))]

Step ==
    /\ pc = "running"
    /\ idx <= Len(compilation.plan)
    /\ \E result \in HandlerResults, now \in Clock :
           /\ Iteration(result, now)
           /\ compilation' = PlanAfterStep(now)
    /\ UNCHANGED <<helper_args, helper_out, kahn>>
    /\ UNCHANGED <<flow, dry_run, resume_from, force_rerun, run_no,
                   frames, heap>>

\* the return after the loop
Return ==
    /\ pc = "running"
    /\ idx > Len(compilation.plan)
    /\ ret' = Returned({"ok", "results", "executionId", "timestamp"},
                       TRUE, FALSE, None, results, <<>>, <<>>)
    /\ pc' = "returned"
    /\ UNCHANGED <<helper_args, helper_out, kahn>>
    /\ UNCHANGED <<flow, compilation, dry_run, resume_from, force_rerun, run_no,
                   idx, skip_until, context, memo, results, calls, frames, heap>>

Next == Call \/ Step \/ Return

Spec == Init /\ [][Next]_vars

-----------------------------------------------------------------------------
(* Two calls of execute_workflow_v2 in flight at the same time, as the       *)
(* thread pool of the server runs them.  A call reads and writes only the   *)
(* names of its own frame; a step of a call is one iteration of its loop.   *)

MaxConcNodes == 2   \* nodes of a workflow that two calls execute at once

\* the calls in flight
Threads == {1, 2}

\* the names of one call: loc has pc, idx, skip_until, ret and the objects
\* context, memo and results
\* one iteration of "for step in plan" as a function of the names of the call
LoopBody(loc, plan, resume, force, result, now) ==
    LET step == plan[loc.idx]
        node_id == step.nodeId
        node_type == step.type
        raw_data == step.data
        resolved_data == ResolveSymbolicRefs(raw_data, loc.context, now)
        idem_key == IdempotencyKey(node_id, node_type, resolved_data)
        failed(code) ==
            LET res == Append(loc.results, FailedEntry(node_id, code))
            IN  [loc EXCEPT !.results = res, !.ret = FailResult(res, node_id),
                            !.pc = "returned", !.skip_until = FALSE]
    IN  IF SkipStep(loc.skip_until, node_id, resume)
            THEN [loc EXCEPT !.results = Append(@, SkippedEntry(node_id)),
                             !.idx = @ + 1]
        ELSE IF ResolveFails(raw_data, loc.context)
            THEN failed("RESOLUTION_FAILED")
        ELSE IF MemoHit(force, idem_key, loc.memo)
            THEN [loc EXCEPT
                     !.results = Append(@, IdempotentEntry(node_id, idem_key,
                                                           loc.memo[idem_key])),
                     !.context = IF loc.memo[idem_key].ok
                                     THEN ExportOutputsToContext(node_id,
                                              loc.memo[idem_key].data,
                                              step.spec.outputs, @)
                                 ELSE @,
                     !.idx = @ + 1,
                     !.skip_until = FALSE]
        ELSE IF ~RegistryGet(node_type).registered
            THEN failed("UNKNOWN_NODE_TYPE")
        ELSE IF result.raised
            THEN [loc EXCEPT !.pc = "raised", !.skip_until = FALSE]
        ELSE LET res == Append(loc.results,
                               ExecutedEntry(node_id, result, idem_key,
                                             resolved_data))
                 ran == [loc EXCEPT !.memo = Put(@, idem_key, result),
                                    !.results = res,
                                    !.skip_until = FALSE]
             IN  IF HandlerFailed(result)
                     THEN [ran EXCEPT
                              !.ret = Returned({"ok", "stopped", "stopAt",
                                                "results", "executionId",
                                                "timestamp"},
                                               FALSE, TRUE, node_id, res,
                                               <<>>, <<>>),
                              !.pc = "returned"]
                 ELSE [ran EXCEPT
                          !.context = ExportOutputsToContext(node_id, result.data,
                                          step.spec.outputs, @),
                          !.idx = @ + 1]

\* the iteration reaches result = spec.run(resolved_data, bus)
Invokes(loc, plan, resume, force, now) ==
    LET step == plan[loc.idx]
        resolved_data == ResolveSymbolicRefs(step.data, loc.context, now)
        idem_key == IdempotencyKey(step.nodeId, step.type, resolved_data)
    IN  /\ ~SkipStep(loc.skip_until, step.nodeId, resume)
        /\ ~ResolveFails(step.data, loc.context)
        /\ ~MemoHit(force, idem_key, loc.memo)
        /\ RegistryGet(step.type).registered

\* the return after the loop as a function of the names of the call
LoopEnd(loc) ==
    [loc EXCEPT !.ret = Returned({"ok", "results", "executionId", "timestamp"},
                                 TRUE, FALSE, None, loc.results, <<>>, <<>>),
                !.pc = "returned"]

\* mutant of ObjectsOf: context, results and memo are module-level objects
\* that every call uses
ObjectsOfModule(t) == 1

\* context, results and memo are created by the call and bound to names of
\* its frame: the objects call t works on are the ones call t created
ObjectsOf(t) == t

\* a call that was not made yet, and the objects no call created yet
NotEntered ==
    [pc |-> "start", plan |-> <<>>, idx |-> 1, skip_until |-> FALSE,
     ret |-> NoReturn, given |-> <<>>]

NoObjects == [context |-> EmptyDict, memo |-> EmptyDict, results |-> <<>>]

\* the names of call t, as LoopBody reads them
Locals(t) ==
    [pc |-> frames[t].pc, idx |-> frames[t].idx,
     skip_until |-> frames[t].skip_until, ret |-> frames[t].ret,
     context |-> heap[ObjectsOf(t)].context,
     memo |-> heap[ObjectsOf(t)].memo,
     results |-> heap[ObjectsOf(t)].results]

\* loc written back to the frame of call t and to the objects it works on
Store(t, loc, given) ==
    /\ frames' = [frames EXCEPT ![t] = [pc |-> loc.pc, plan |-> @.plan,
                                        idx |-> loc.idx,
                                        skip_until |-> loc.skip_until,
                                        ret |-> loc.ret, given |-> given]]
    /\ heap' = [heap EXCEPT ![ObjectsOf(t)] =
                    [context |-> loc.context, memo |-> loc.memo,
                     results |-> loc.results]]

\* graphs of createSound and audioImport nodes with forward edges
IsConcFlow(f) ==
    \E k \in 1..MaxConcNodes :
        \E kinds \in [1..k -> RunKindPool] :
            \E E \in SUBSET ForwardEdges(k) :
                f = Flow([i \in 1..k |-> Node(IdTable[i], kinds[i])], SortedEdges(E))

InitConcurrent ==
    /\ IsConcFlow(flow)
    /\ pc = "start"
    /\ compilation = NotCompiled
    /\ dry_run \in BOOLEAN
    /\ resume_from \in {None} \cup {IdTable[i] : i \in 1..Len(flow.nodes)}
    /\ force_rerun \in BOOLEAN
    /\ run_no = 0
    /\ idx = 1
    /\ skip_until = FALSE
    /\ context = EmptyDict
    /\ memo = EmptyDict
    /\ results = <<>>
    /\ ret = NoReturn
    /\ calls = <<>>
    /\ frames = [t \in Threads |-> NotEntered]
    /\ heap = [t \in Threads |-> NoObjects]
    /\ helper_args = <<>>
    /\ helper_out = <<>>
    /\ kahn = NotSorting

\* call t enters execute_workflow_v2: from its entry to the start of the loop
ConcCall(t) ==
    /\ frames[t].pc = "start"
    /\ LET comp == compile_workflow(flow)
       IN  IF ~comp.ok
               THEN /\ frames' = [frames EXCEPT ![t] =
                          [@ EXCEPT !.pc = "returned",
                                    !.ret = Returned({"ok", "stopped", "stopAt",
                                                      "errors", "results"},
                                                     FALSE, TRUE, None, <<>>,
                                                     comp.errors, <<>>)]]
                    /\ UNCHANGED heap
           ELSE IF IsDryRun(dry_run)
               THEN /\ frames' = [frames EXCEPT ![t] =
                          [@ EXCEPT !.pc = "returned",
                                    !.ret = Returned({"ok", "dryRun", "plan",
                                                      "results", "executionId",
                                                      "timestamp"},
                                                     TRUE, FALSE, None, <<>>,
                                                     <<>>, comp.plan)]]
                    /\ UNCHANGED heap
           ELSE /\ frames' = [frames EXCEPT ![t] =
                      [@ EXCEPT !.pc = "running", !.plan = comp.plan, !.idx = 1,
                                !.skip_until = (resume_from # None)]]
                /\ heap' = [heap EXCEPT ![ObjectsOf(t)] = NoObjects]
    /\ UNCHANGED <<helper_args, helper_out, kahn>>
    /\ UNCHANGED <<flow, pc, compilation, dry_run, resume_from, force_rerun,
                   run_no, idx, skip_until, context, memo, results, ret, calls>>

\* call t runs one iteration of its loop
ConcStep(t) ==
    /\ frames[t].pc = "running"
    /\ frames[t].idx <= Len(frames[t].plan)
    /\ \E result \in HandlerResults, now \in Clock :
           LET plan == frames[t].plan
               got == IF Invokes(Locals(t), plan, resume_from, force_rerun, now)
                          THEN result ELSE NoResult
           IN  Store(t, LoopBody(Locals(t), plan, resume_from, force_rerun,
                                 result, now),
                     Append(frames[t].given, [result |-> got, now |-> now]))
    /\ UNCHANGED <<helper_args, helper_out, kahn>>
    /\ UNCHANGED <<flow, pc, compilation, dry_run, resume_from, force_rerun,
                   run_no, idx, skip_until, context, memo, results, ret, calls>>

\* call t returns after its loop
ConcReturn(t) ==
    /\ frames[t].pc = "running"
    /\ frames[t].idx > Len(frames[t].plan)
    /\ Store(t, LoopEnd(Locals(t)), frames[t].given)
    /\ UNCHANGED <<helper_args, helper_out, kahn>>
    /\ UNCHANGED <<flow, pc, compilation, dry_run, resume_from, force_rerun,
                   run_no, idx, skip_until, context, memo, results, ret, calls>>

NextConcurrent ==
    \E t \in Threads : ConcCall(t) \/ ConcStep(t) \/ ConcReturn(t)

SpecConcurrent == InitConcurrent /\ [][NextConcurrent]_vars


-----------------------------------------------------------------------------
(* Claims on execute_workflow_v2, checked under Spec *)

Plan == compilation.plan

\* the handler invocations of the current call
RunCalls == SelectSeq(calls, LAMBDA c : c.run = run_no)

Invoked(node_id) == \E j \in DOMAIN RunCalls : RunCalls[j].node = node_id

\* C4: after the same workflow was executed twice with forceRerun=false (the
\* first execution having run every step successfully), every step of the
\* second execution is recorded as idempotent and every step's handler was
\* invoked exactly once over the two executions.
C4_SecondRunIdempotent ==
    (/\ pc = "returned" /\ run_no = 2
     /\ ~force_rerun /\ ~dry_run /\ resume_from = None
     /\ compilation.ok
     /\ \A k \in DOMAIN Plan :
            \E j \in DOMAIN calls :
                calls[j].node = Plan[k].nodeId /\ calls[j].run = 1 /\ calls[j].ok)
        => /\ Len(ret.results) = Len(Plan)
           /\ \A i \in DOMAIN ret.results : ret.results[i].what = "idempotent"
           /\ \A k \in DOMAIN Plan :
                  Cardinality({j \in DOMAIN calls :
                                   calls[j].node = Plan[k].nodeId}) = 1

\* C5: once the handler of step k has returned a result that is not ok, the
\* call has returned ok=false, stopped=true and stopAt = the node of step k,
\* results holds the outcomes of steps 1..k and nothing else, and that
\* handler invocation is the last one.
C5_HaltOnHandlerFailure ==
    \A i \in DOMAIN results :
        (results[i].what = "executed" /\ ~results[i].result.ok)
        => /\ i = Len(results)
           /\ pc = "returned"
           /\ ret.returned /\ ~ret.ok /\ ret.stopped
           /\ "stopAt" \in ret.keys
           /\ ret.stopAt = Plan[i].nodeId
           /\ ret.results = results
           /\ \A j \in 1..i : results[j].node = Plan[j].nodeId
           /\ calls # <<>>
           /\ calls[Len(calls)].node = Plan[i].nodeId
           /\ calls[Len(calls)].run = run_no

\* the second of three steps failed after the first was executed
C5_Witness ==
    /\ pc = "returned"
    /\ Len(Plan) = 3 /\ Len(results) = 2
    /\ results[1].what = "executed" /\ results[1].ok
    /\ results[2].what = "executed" /\ ~results[2].ok
    /\ ret.stopAt = Plan[2].nodeId

\* C8: when the field of a step B that is resolved holds the reference
\* "$from:A:$output:f" and node A has executed successfully and exported f,
\* the data B's handler receives holds, in that field, exactly the value A
\* exported for f.
C8_ReferenceRoundTrip ==
    \A i \in DOMAIN results :
        results[i].what # "skipped" =>
            \A field \in DOMAIN Plan[i].data, k \in DOMAIN Plan :
                \A f \in Range(Plan[k].spec.outputs) :
                    LET A == Plan[k].nodeId
                    IN  (/\ Plan[i].data[field] = Reference(A, f)
                         /\ \E j \in DOMAIN RunCalls :
                                RunCalls[j].node = A /\ RunCalls[j].ok
                         /\ A \in DOMAIN context
                         /\ f \in DOMAIN context[A])
                        => /\ results[i].what = "executed"
                           /\ field \in DOMAIN results[i].data
                           /\ results[i].data[field] = context[A][f]

\* C9: with resumeFrom naming a step of the plan, every step before it is
\* recorded as skipped, its handler is not invoked and the context has no
\* entry for it; the resumeFrom step and the later steps are not skipped:
\* their handler is invoked unless resolution fails, and a step that
\* references an output of a skipped node fails with RESOLUTION_FAILED.
C9_ResumeSkipsPrefix ==
    LET p == IndexOf(PlanIds, resume_from)
    IN  (resume_from # None /\ p > 0) =>
            \A i \in DOMAIN results :
                /\ i < p =>
                       /\ results[i] = SkippedEntry(Plan[i].nodeId)
                       /\ Plan[i].nodeId \notin DOMAIN context
                       /\ ~Invoked(Plan[i].nodeId)
                /\ i >= p =>
                       /\ results[i].node = Plan[i].nodeId
                       /\ results[i].what \in {"executed", "failed"}
                       /\ results[i].what = "executed" => Invoked(Plan[i].nodeId)
                       /\ results[i].what = "failed" =>
                              results[i].code = "RESOLUTION_FAILED"
                       /\ (\E field \in DOMAIN Plan[i].data, k \in 1..(p - 1) :
                              \E f \in Range(Plan[k].spec.outputs) :
                                  Plan[i].data[field] = Reference(Plan[k].nodeId, f))
                          => results[i] = FailedEntry(Plan[i].nodeId,
                                                      "RESOLUTION_FAILED")

\* resumeFrom the second of three steps: the first skipped, the second
\* executed, the third failing on its reference to the first
C9_Witness ==
    /\ pc = "returned"
    /\ Len(Plan) = 3 /\ Len(results) = 3
    /\ resume_from = Plan[2].nodeId
    /\ results[1].what = "skipped"
    /\ results[2].what = "executed" /\ results[2].ok
    /\ results[3] = FailedEntry(Plan[3].nodeId, "RESOLUTION_FAILED")
    /\ \E field \in DOMAIN Plan[3].data :
           Plan[3].data[field] = Reference(Plan[1].nodeId, "objectId")

\* the field holds a reference to an output of a plan node that the context
\* does not hold
DanglingRef(data, ctx) ==
    \E field \in DOMAIN data, k \in DOMAIN Plan :
        \E f \in AllOutputs :
            /\ data[field] = Reference(Plan[k].nodeId, f)
            /\ \/ Plan[k].nodeId \notin DOMAIN ctx
               \/ f \notin DOMAIN ctx[Plan[k].nodeId]

\* C10: a step that is resolved while one of its fields holds a reference
\* whose source node has no entry in the context, or whose field is missing
\* from that entry, ends the call: the entry of the step is the
\* RESOLUTION_FAILED failure, it is the last of results after the outcomes
\* of the earlier steps, the call has returned ok=false with stopAt = the
\* node, and no handler of this or a later step was invoked.
C10_ResolutionFailure ==
    \A i \in DOMAIN results :
        (results[i].what # "skipped" /\ DanglingRef(Plan[i].data, context))
        => /\ results[i] = FailedEntry(Plan[i].nodeId, "RESOLUTION_FAILED")
           /\ i = Len(results)
           /\ \A j \in 1..(i - 1) :
                  results[j].node = Plan[j].nodeId /\ results[j].what # "failed"
           /\ pc = "returned"
           /\ ret.returned /\ ~ret.ok
           /\ "stopAt" \in ret.keys
           /\ ret.stopAt = Plan[i].nodeId
           /\ ret.results = results
           /\ \A k \in i..Len(Plan) : ~Invoked(Plan[k].nodeId)

\* a failure on a field missing from the entry of a source that did execute
C10_Witness ==
    /\ pc = "returned"
    /\ results # <<>>
    /\ results[Len(results)].what = "failed"
    /\ \E field \in DOMAIN Plan[Len(results)].data, k \in DOMAIN Plan :
           /\ Plan[Len(results)].data[field] = Reference(Plan[k].nodeId, "objectId")
           /\ Plan[k].nodeId \in DOMAIN context
           /\ "objectId" \notin DOMAIN context[Plan[k].nodeId]

\* C11: a call of execute_workflow_v2 never ends with an exception; a call
\* that ended on the failure of a step (a handler that raised included) has
\* returned ok=false with stopAt naming that step, whose error is the last
\* entry of results.
C11_NeverRaises ==
    /\ pc # "raised"
    /\ (calls # <<>> /\ calls[Len(calls)].run = run_no
            /\ ~calls[Len(calls)].ok /\ pc # "running")
       => /\ pc = "returned"
          /\ ret.returned /\ ~ret.ok
          /\ "stopAt" \in ret.keys
          /\ ret.stopAt = calls[Len(calls)].node
          /\ ret.results # <<>>
          /\ ret.results[Len(ret.results)].node = calls[Len(calls)].node
          /\ ~ret.results[Len(ret.results)].ok

-----------------------------------------------------------------------------
(* Further claims on compile_workflow, checked under SpecCompile *)

NamedErrors ==
    {"INVALID_EDGE", "UNKNOWN_NODE", "GRAPH_CYCLE", "UNKNOWN_NODE_TYPE",
     "MISSING_INPUT"}

\* the edge is a mapping whose source and target are ids of nodes
GoodEdge(f, i) ==
    /\ f.edges[i] # NotAMapping
    /\ f.edges[i].source \in NodeIdsOf(f)
    /\ f.edges[i].target \in NodeIdsOf(f)

\* a node has no id, or the first edge that is not a good one is no mapping
Unexpected(f) ==
    \/ \E i \in DOMAIN f.nodes : f.nodes[i].id = Missing
    \/ \E i \in DOMAIN f.edges :
           /\ f.edges[i] = NotAMapping
           /\ \A j \in 1..(i - 1) : GoodEdge(f, j)

\* C12: compile_workflow returns a structured result for every input, a
\* node without id and an edge that is no mapping included: ok=true, or
\* ok=false with an empty plan and one error; the error is COMPILATION_FAILED
\* (without node id) exactly when the failure is none of the named errors.
C12_MalformedDegrades ==
    Compiled =>
        /\ compilation.ok =>
               compilation.errors = <<>> /\ ~Unexpected(flow)
        /\ ~compilation.ok =>
               /\ compilation.plan = <<>>
               /\ Len(compilation.errors) = 1
               /\ compilation.errors[1].code \in NamedErrors \cup {"COMPILATION_FAILED"}
               /\ compilation.errors[1].code = "COMPILATION_FAILED"
                      <=> Unexpected(flow)
               /\ compilation.errors[1].code = "COMPILATION_FAILED"
                      => compilation.errors[1].nodeId = None

\* COMPILATION_FAILED on an edge that is no mapping, listed after an edge
\* between known nodes, in a graph whose nodes all have an id
C12_Witness ==
    /\ Compiled /\ ~compilation.ok
    /\ compilation.errors[1].code = "COMPILATION_FAILED"
    /\ \A i \in DOMAIN flow.nodes : flow.nodes[i].id # Missing
    /\ Len(flow.edges) = 2
    /\ GoodEdge(flow, 1)
    /\ flow.edges[2] = NotAMapping

\* C13 as stated: every result of compile_workflow is ok=true with a
\* non-empty plan and no errors, or ok=false with an empty plan and at least
\* one error.
C13_PlanOrErrors ==
    Compiled =>
        \/ /\ compilation.ok
           /\ compilation.plan # <<>>
           /\ compilation.errors = <<>>
        \/ /\ ~compilation.ok
           /\ compilation.plan = <<>>
           /\ compilation.errors # <<>>

\* C13 amended: every result of compile_workflow is ok=true with no errors
\* and a plan of one step per node, empty exactly when the graph has no
\* nodes, or ok=false with an empty plan and exactly one error.
C13_PlanPerNodeOrError ==
    Compiled =>
        \/ /\ compilation.ok
           /\ compilation.errors = <<>>
           /\ Len(compilation.plan) = Len(flow.nodes)
        \/ /\ ~compilation.ok
           /\ compilation.plan = <<>>
           /\ Len(compilation.errors) = 1

\* the graph without nodes compiled: ok=true with an empty plan
C13_Witness ==
    /\ Compiled
    /\ flow.nodes = <<>>
    /\ compilation.ok
    /\ compilation.plan = <<>>

-----------------------------------------------------------------------------
(* Further claims on execute_workflow_v2, checked under Spec *)

\* C14: the result a call that is no dry run returns after the workflow
\* compiled (on success, on a handler failure, on RESOLUTION_FAILED and on
\* UNKNOWN_NODE_TYPE) carries all of ok, results, stopped, stopAt,
\* executionId and timestamp.
C14_ResultKeys ==
    (pc = "returned" /\ ~dry_run /\ compilation.ok)
        => {"ok", "results", "stopped", "stopAt", "executionId", "timestamp"}
               \subseteq ret.keys

\* C15: a call with dryRun=true on a graph that compiles has returned
\* ok=true with the compiled plan (one step per node) and empty results;
\* no handler was invoked and context, memo and results were never written,
\* whatever resumeFrom and forceRerun are.
C15_DryRunNoEffect ==
    (dry_run /\ run_no >= 1 /\ compilation.ok)
        => /\ pc = "returned"
           /\ ret.returned /\ ret.ok
           /\ "dryRun" \in ret.keys /\ "plan" \in ret.keys
           /\ ret.plan = compilation.plan
           /\ Len(ret.plan) = Len(flow.nodes)
           /\ ret.results = <<>>
           /\ calls = <<>>
           /\ context = EmptyDict
           /\ memo = EmptyDict
           /\ results = <<>>

\* a second dry run of a three-step plan with resumeFrom and forceRerun set
C15_Witness ==
    /\ dry_run /\ pc = "returned" /\ run_no = 2
    /\ compilation.ok
    /\ Len(ret.plan) = 3
    /\ resume_from = ret.plan[2].nodeId
    /\ force_rerun

\* C16: a graph with a compilation error (an edge that is invalid, names an
\* unknown node or closes a cycle, a node of an unregistered type or with a
\* required input neither supplied nor wired) has no partial result:
\* compilation fails with an empty plan and its error, and the call of
\* execute_workflow_v2 has returned ok=false, stopped=true, empty results
\* and the compilation errors without invoking a handler.
C16_CompileErrorFailsWhole ==
    (/\ run_no >= 1
     /\ \/ ~compilation.ok
        \/ ~EdgesKnown(flow)
        \/ HasCycle(flow)
        \/ \E i \in DOMAIN flow.nodes : ~NodeOk(flow, flow.nodes[i]))
        => /\ ~compilation.ok
           /\ compilation.plan = <<>>
           /\ compilation.errors # <<>>
           /\ pc = "returned"
           /\ ret.returned /\ ~ret.ok /\ ret.stopped
           /\ ret.results = <<>>
           /\ "errors" \in ret.keys
           /\ ret.errors = compilation.errors
           /\ calls = <<>>
           /\ results = <<>>

\* the third of three nodes lacks an input, the first two are complete
C16_Witness ==
    /\ pc = "returned" /\ ~dry_run
    /\ Len(flow.nodes) = 3
    /\ NodeOk(flow, flow.nodes[1]) /\ NodeOk(flow, flow.nodes[2])
    /\ ~NodeOk(flow, flow.nodes[3])
    /\ ret.errors # <<>>
    /\ ret.errors[1].code = "MISSING_INPUT"
    /\ ret.errors[1].nodeId = flow.nodes[3].id

-----------------------------------------------------------------------------
(* Claims on the edges of a graph, checked under SpecCompile *)

\* the source or the target of the edge is absent, null or empty
MissingEnd(f, i) ==
    \/ f.edges[i].source \in {None, Str(<<>>)}
    \/ f.edges[i].target \in {None, Str(<<>>)}

\* both are there and one of them is not the id of a node
UnknownEnd(f, i) ==
    /\ ~MissingEnd(f, i)
    /\ \/ f.edges[i].source \notin NodeIdsOf(f)
       \/ f.edges[i].target \notin NodeIdsOf(f)

\* the nodes have ids and the edges are mappings
Regular(f) ==
    /\ \A i \in DOMAIN f.nodes : f.nodes[i].id # Missing
    /\ \A i \in DOMAIN f.edges : f.edges[i] # NotAMapping

\* C17 as stated: an edge with a missing source or target makes compilation
\* fail with INVALID_EDGE, an edge with an endpoint that is no node's id
\* makes it fail with UNKNOWN_NODE carrying that id, and when every edge
\* joins existing nodes neither error is reported.
C17_EachBadEdgeReported ==
    (Compiled /\ Regular(flow)) =>
        /\ \A i \in DOMAIN flow.edges :
               /\ MissingEnd(flow, i) =>
                      /\ ~compilation.ok
                      /\ compilation.errors[1].code = "INVALID_EDGE"
               /\ UnknownEnd(flow, i) =>
                      /\ ~compilation.ok
                      /\ compilation.errors[1].code = "UNKNOWN_NODE"
                      /\ compilation.errors[1].nodeId \in
                             {flow.edges[i].source, flow.edges[i].target}
                                 \ NodeIdsOf(flow)
        /\ (\A i \in DOMAIN flow.edges : GoodEdge(flow, i)) =>
               \/ compilation.ok
               \/ compilation.errors[1].code \notin {"INVALID_EDGE", "UNKNOWN_NODE"}

\* C17 amended: a graph with an edge that has a missing source or target
\* or an endpoint that is no node's id fails to compile, with an empty plan
\* and one error decided by the first such edge of the edge list:
\* INVALID_EDGE without node id if its source or target is missing, else
\* UNKNOWN_NODE carrying its source if that is no node's id, its target
\* otherwise; when every edge joins existing nodes neither error is reported.
C17_FirstBadEdgeReported ==
    (Compiled /\ Regular(flow)) =>
        /\ \A i \in DOMAIN flow.edges :
               (~GoodEdge(flow, i) /\ \A j \in 1..(i - 1) : GoodEdge(flow, j)) =>
                   /\ ~compilation.ok
                   /\ compilation.plan = <<>>
                   /\ Len(compilation.errors) = 1
                   /\ compilation.errors[1] =
                          IF MissingEnd(flow, i)
                              THEN CompilationError("INVALID_EDGE", None, {})
                          ELSE IF flow.edges[i].source \notin NodeIdsOf(flow)
                              THEN CompilationError("UNKNOWN_NODE",
                                                    flow.edges[i].source, {})
                          ELSE CompilationError("UNKNOWN_NODE",
                                                flow.edges[i].target, {})
        /\ (\A i \in DOMAIN flow.edges : GoodEdge(flow, i)) =>
               \/ compilation.ok
               \/ compilation.errors[1].code \notin {"INVALID_EDGE", "UNKNOWN_NODE"}

\* UNKNOWN_NODE carrying the target of the second edge, whose source is a
\* node; the first edge joins existing nodes
C17_Witness ==
    /\ Compiled /\ Regular(flow)
    /\ Len(flow.edges) = 2
    /\ GoodEdge(flow, 1)
    /\ flow.edges[2].source \in NodeIdsOf(flow)
    /\ flow.edges[2].target \notin NodeIdsOf(flow) \cup {None, Str(<<>>)}
    /\ ~compilation.ok
    /\ compilation.errors[1].code = "UNKNOWN_NODE"
    /\ compilation.errors[1].nodeId = flow.edges[2].target

-----------------------------------------------------------------------------
(* Claims on repeated and concurrent calls *)

Entered(resume) ==
    [pc |-> "running", idx |-> 1, skip_until |-> (resume # None),
     ret |-> NoReturn, context |-> EmptyDict, memo |-> EmptyDict,
     results |-> <<>>]

\* the names of a call that runs alone and is given the handler results of
\* given, one for each iteration
RECURSIVE Alone(_, _, _, _, _)
Alone(loc, plan, resume, force, given) ==
    IF given = <<>> THEN loc
    ELSE Alone(LoopBody(loc, plan, resume, force, Head(given).result,
                        Head(given).now),
               plan, resume, force, Tail(given))

\* call t is in its loop or left it
InLoop(t) ==
    /\ frames[t].pc \in {"running", "returned", "raised"}
    /\ frames[t].plan # <<>>
    /\ ~dry_run

-----------------------------------------------------------------------------
(* workflow_runner.py: the legacy runner execute_workflow, which walks the  *)
(* node list in the order given, without compiling it                       *)

MaxLegacyNodes == 3   \* nodes of a workflow run by execute_workflow

OutputBus == Str(<<"OutputBus">>)
BusPath == Str(<<"/Master">>)
Unknown == Str(<<"<unknown>">>)

\* d.get(k)
Get(d, k) == IF k \in DOMAIN d THEN d[k] ELSE None

\* the node types and data execute_workflow is run on; "" is a node without
\* type
LegacyKindPool ==
    { Kind("createSound", Dict1("name", Foo)),
      Kind("audioImport", Dict2("sourceNode", IdTable[1], "filePath", Wav)),
      Kind("audioImport", Dict1("filePath", Wav)),
      Kind("setReference",
           [k \in {"reference", "sourceNode", "valuePath"} |->
               IF k = "reference" THEN OutputBus
               ELSE IF k = "sourceNode" THEN IdTable[1] ELSE BusPath]),
      Kind("setReference", Dict1("objectId", Obj)),
      Kind("projectSave", EmptyDict),
      Kind("bogusType", EmptyDict),
      Kind("", EmptyDict) }

\* node lists whose i-th node has the i-th id, or no id at all
IsLegacyFlow(f) ==
    \E k \in 0..MaxLegacyNodes :
        \E nodes \in [1..k -> LegacyKindPool \cup {Kind("noId", EmptyDict)}] :
            f = Flow([i \in 1..k |->
                         IF nodes[i].type = "noId"
                             THEN Node(None, Kind("projectSave", EmptyDict))
                         ELSE Node(IdTable[i], nodes[i])],
                     <<>>)

\* what a method of CommandBus can return: every exception is caught inside
BusResults == {r \in HandlerResults : ~r.raised}

\* audio_import and set_output_bus return INVALID_INPUT without calling the
\* adapter when one of their two fields is falsy
BusCall(a, b) ==
    IF Truthy(a) /\ Truthy(b) THEN BusResults
    ELSE {[ok |-> FALSE, data |-> EmptyDict, raised |-> FALSE]}

\* an entry of results: what says which keys it carries ("result": node and
\* result; "error": node, ok=False, code, error; "dryRun": node, ok=True, ...)
LegacyEntry(node_id, what, ok, code) ==
    [node |-> node_id, what |-> what, ok |-> ok, code |-> code]

\* ensure_object_id()
EnsureObjectId(data, ctx) ==
    IF "objectId" \in DOMAIN data /\ Truthy(data["objectId"])
        THEN data["objectId"]
    ELSE LET src == Get(data, "sourceNode")
         IN  IF ~Truthy(src) THEN None
             ELSE IF src \notin DOMAIN ctx THEN None
             ELSE Get(ctx[src], "objectId")

\* _extract_id_from_data(res.get("data"))
ExtractIdFromData(data) == Get(data, "id")

\* fail(nid, code, msg) followed by the return of the stopped result
LegacyStop(loc, nid, res, code) ==
    LET all == Append(res, LegacyEntry(nid, "error", FALSE, code))
    IN  [loc EXCEPT !.results = all,
                    !.ret = Returned({"ok", "stopped", "stopAt", "results"},
                                     FALSE, TRUE, nid, all, <<>>, <<>>),
                    !.pc = "returned"]

\* the step of a node whose handler was called and returned res: the result
\* is appended, a result that is not ok stops the run
LegacyAfter(loc, nid, res) ==
    LET all == Append(loc.results, LegacyEntry(nid, "result", res.ok, ""))
    IN  IF ~res.ok THEN LegacyStop(loc, nid, all, "STEP_FAILED")
        ELSE [loc EXCEPT !.results = all, !.idx = @ + 1]

\* the handler calls one iteration can make: the results to choose from
LegacyResults(node, ctx) ==
    LET obj == EnsureObjectId(node.data, ctx)
    IN  CASE node.type = "audioImport" -> BusCall(obj, Get(node.data, "filePath"))
          [] node.type = "setReference" -> BusCall(obj, Get(node.data, "valuePath"))
          [] OTHER -> BusResults

\* one iteration of "for node in nodes"; loc has pc, idx, ctx, results, ret,
\* res is what the method of the bus returns if it is called
LegacyBody(loc, node, dry, res) ==
    LET nid == node.id
        ntype == node.type
        data == node.data
        obj == EnsureObjectId(data, loc.ctx)
        next(entry) == [loc EXCEPT !.results = Append(@, entry), !.idx = @ + 1]
    IN  IF ~Truthy(nid) \/ ntype = ""
            THEN \* INVALID_NODE: continue
                 next(LegacyEntry(IF Truthy(nid) THEN nid ELSE Unknown,
                                  "error", FALSE, "INVALID_NODE"))
        ELSE IF dry
            THEN next(LegacyEntry(nid, "dryRun", TRUE, ""))
        ELSE IF ntype = "createSound"
            THEN LET all == Append(loc.results,
                                   LegacyEntry(nid, "result", res.ok, ""))
                     oid == ExtractIdFromData(res.data)
                 IN  IF ~res.ok THEN LegacyStop(loc, nid, all, "STEP_FAILED")
                     ELSE IF Truthy(oid)
                         THEN [loc EXCEPT !.results = all, !.idx = @ + 1,
                                          !.ctx = Put(@, nid, Dict1("objectId", oid))]
                     ELSE LegacyStop(loc, nid, all, "MISSING_ID")
        ELSE IF ntype = "audioImport"
            THEN IF ~Truthy(obj)
                     THEN LegacyStop(loc, nid, loc.results, "MISSING_DEPENDENCY")
                 ELSE LegacyAfter(loc, nid, res)
        ELSE IF ntype = "setReference"
            THEN IF Get(data, "reference") # OutputBus
                     THEN LegacyStop(loc, nid, loc.results, "UNSUPPORTED_REFERENCE")
                 ELSE IF ~Truthy(obj)
                     THEN LegacyStop(loc, nid, loc.results, "MISSING_DEPENDENCY")
                 ELSE LegacyAfter(loc, nid, res)
        ELSE IF ntype = "projectSave"
            THEN LegacyAfter(loc, nid, res)
        ELSE LegacyStop(loc, nid, loc.results, "UNKNOWN_NODE")

\* execute_workflow(flow, dry_run) at the start of its loop
InitLegacy ==
    /\ IsLegacyFlow(flow)
    /\ pc = "running"
    /\ compilation = NotCompiled
    /\ dry_run \in BOOLEAN
    /\ resume_from = None
    /\ force_rerun = FALSE
    /\ run_no = 0
    /\ idx = 1
    /\ skip_until = FALSE
    /\ context = EmptyDict
    /\ memo = EmptyDict
    /\ results = <<>>
    /\ ret = NoReturn
    /\ calls = <<>>
    /\ frames = <<>>
    /\ heap = <<>>
    /\ helper_args = <<>>
    /\ helper_out = <<>>
    /\ kahn = NotSorting

LegacyStep ==
    /\ pc = "running"
    /\ idx <= Len(flow.nodes)
    /\ \E res \in LegacyResults(flow.nodes[idx], context) :
           LET loc == LegacyBody([pc |-> pc, idx |-> idx, ctx |-> context,
                                  results |-> results, ret |-> ret],
                                 flow.nodes[idx], dry_run, res)
           IN  /\ pc' = loc.pc
               /\ idx' = loc.idx
               /\ context' = loc.ctx
               /\ results' = loc.results
               /\ ret' = loc.ret
    /\ UNCHANGED <<helper_args, helper_out, kahn>>
    /\ UNCHANGED <<flow, compilation, dry_run, resume_from, force_rerun, run_no,
                   skip_until, memo, calls, frames, heap>>

\* return {"ok": True, "results": results}
LegacyReturn ==
    /\ pc = "running"
    /\ idx > Len(flow.nodes)
    /\ ret' = Returned({"ok", "results"}, TRUE, FALSE, None, results, <<>>, <<>>)
    /\ pc' = "returned"
    /\ UNCHANGED <<helper_args, helper_out, kahn>>
    /\ UNCHANGED <<flow, compilation, dry_run, resume_from, force_rerun, run_no,
                   idx, skip_until, context, memo, results, calls, frames, heap>>

NextLegacy == LegacyStep \/ LegacyReturn

SpecLegacy == InitLegacy /\ [][NextLegacy]_vars

\* an entry written by fail or for a node without id or type
IsError(entry) == entry.what = "error"

\* C21: once an entry of the results of execute_workflow is an error, no
\* entry follows it, and the call returns ok=false with stopAt naming the
\* node of that entry; a result with ok=true has no error entry
C21_LegacyStopsAtFirstError ==
    /\ \A i \in DOMAIN results :
           IsError(results[i]) =>
               /\ i = Len(results)
               /\ pc = "returned"
               /\ ~ret.ok
               /\ ret.stopAt = results[i].node
    /\ (pc = "returned" /\ ret.ok) =>
           \A i \in DOMAIN ret.results : ~IsError(ret.results[i])

-----------------------------------------------------------------------------
(* Helpers of workflow_runner_v2.py called on their own, on arguments that  *)
(* the workflows above do not produce                                       *)

\* two readings of the wall clock
HelperClock == {"t1", "t2"}

TemplateName == Str(<<"Foo_", "${timestamp}">>)

\* {k: f(k) for k in keys} for every choice of keys and of values
DictsOver(keys, values) ==
    UNION {[K -> values] : K \in SUBSET keys}

\* the data of a step before resolution: a name, with or without the
\* timestamp template, and the keys that _stable_dict ignores
KeyData == DictsOver({"name", "timestamp", "executionId"}, {Foo, TemplateName})

\* steps 3 and 4 of the loop body: the key of the step whose data is data,
\* resolved against ctx when the clock reads now
KeyOfStep(node_id, node_type, data, ctx, now) ==
    IdempotencyKey(node_id, node_type, ResolveSymbolicRefs(data, ctx, now))

\* two invocations of the step n1 of type createSound
IsKeyArgs(a) ==
    \E d1, d2 \in KeyData, t1, t2 \in HelperClock :
        a = [fn |-> "key", node_id |-> IdTable[1], node_type |-> "createSound",
             data |-> <<d1, d2>>, now |-> <<t1, t2>>]

\* the steps the loop body is run on: the plan of a workflow of one node
BodyKinds ==
    { Kind("createSound", Dict1("name", Foo)),
      Kind("audioImport", Dict2("objectId", Obj, "filePath", Wav)),
      Kind("projectSave", EmptyDict) }

\* what the memo holds for a key: nothing, or a result a handler returned
NotCached == [ok |-> FALSE, data |-> EmptyDict, raised |-> TRUE]

\* one iteration of the loop on the only step of a plan, entered with a memo
\* that is empty or already has the key of the step
IsBodyArgs(a) ==
    \E kind \in BodyKinds, cached \in HandlerResults, force \in BOOLEAN,
       result \in HandlerResults :
        LET plan == compile_workflow(Flow(<<Node(IdTable[1], kind)>>, <<>>)).plan
            key == KeyOfStep(plan[1].nodeId, plan[1].type, plan[1].data,
                             EmptyDict, "t1")
        IN  a = [fn |-> "body", plan |-> plan, force |-> force,
                 result |-> result, now |-> "t1",
                 loc |-> [pc |-> "running", idx |-> 1, skip_until |-> FALSE,
                          ret |-> NoReturn, context |-> EmptyDict,
                          results |-> <<>>,
                          memo |-> IF cached = NotCached THEN EmptyDict
                                   ELSE Put(EmptyDict, key, cached)]]

Obj2 == Str(<<"obj2">>)

\* _export_outputs_to_context called for node n1 on an empty context, with
\* the declared outputs of createSound, projectSave or audioImport and a
\* result data that has some of the keys id, objectId and name
IsExportArgs(a) ==
    \E t \in {"createSound", "projectSave", "audioImport"},
       d \in DictsOver({"id", "objectId", "name"}, {Obj, Obj2}) :
        a = [fn |-> "export", node_id |-> IdTable[1], result_data |-> d,
             output_fields |-> RegistryGet(t).outputs, ctx |-> EmptyDict]

InitHelpers ==
    /\ IsKeyArgs(helper_args) \/ IsBodyArgs(helper_args) \/ IsExportArgs(helper_args)
    /\ helper_out = <<>>
    /\ kahn = NotSorting
    /\ flow = Flow(<<>>, <<>>)
    /\ pc = "start"
    /\ compilation = NotCompiled
    /\ dry_run = FALSE
    /\ resume_from = None
    /\ force_rerun = FALSE
    /\ run_no = 0
    /\ idx = 1
    /\ skip_until = FALSE
    /\ context = EmptyDict
    /\ memo = EmptyDict
    /\ results = <<>>
    /\ ret = NoReturn
    /\ calls = <<>>
    /\ frames = <<>>
    /\ heap = <<>>

\* the key of the step is computed once for each invocation
ApplyKey ==
    /\ pc = "start"
    /\ helper_args.fn = "key"
    /\ helper_out' = [i \in 1..2 |->
                          KeyOfStep(helper_args.node_id, helper_args.node_type,
                                    helper_args.data[i], EmptyDict,
                                    helper_args.now[i])]
    /\ pc' = "returned"
    /\ UNCHANGED <<flow, compilation, dry_run, resume_from, force_rerun, run_no,
                   idx, skip_until, context, memo, results, ret, calls, frames,
                   heap, helper_args, kahn>>

\* one iteration of "for step in plan" on the names of helper_args.loc
ApplyBody ==
    /\ pc = "start"
    /\ helper_args.fn = "body"
    /\ helper_out' =
           [loc |-> LoopBody(helper_args.loc, helper_args.plan, None,
                             helper_args.force, helper_args.result,
                             helper_args.now),
            invoked |-> Invokes(helper_args.loc, helper_args.plan, None,
                                helper_args.force, helper_args.now)]
    /\ pc' = "returned"
    /\ UNCHANGED <<flow, compilation, dry_run, resume_from, force_rerun, run_no,
                   idx, skip_until, context, memo, results, ret, calls, frames,
                   heap, helper_args, kahn>>

\* _export_outputs_to_context(node_id, result_data, output_fields, context):
\* helper_out is the context afterwards
ApplyExport ==
    /\ pc = "start"
    /\ helper_args.fn = "export"
    /\ helper_out' = ExportOutputsToContext(helper_args.node_id,
                                            helper_args.result_data,
                                            helper_args.output_fields,
                                            helper_args.ctx)
    /\ pc' = "returned"
    /\ UNCHANGED <<flow, compilation, dry_run, resume_from, force_rerun, run_no,
                   idx, skip_until, context, memo, results, ret, calls, frames,
                   heap, helper_args, kahn>>

NextHelpers == ApplyKey \/ ApplyBody \/ ApplyExport

SpecHelpers == InitHelpers /\ [][NextHelpers]_vars

\* C22: two invocations of the same step whose data differ only in the keys
\* timestamp, executionId and _internal, made at any two clock times, have
\* the same idempotency key
C22_KeyIgnoresClock ==
    (/\ pc = "returned"
     /\ helper_args.fn = "key"
     /\ StableDict(helper_args.data[1]) = StableDict(helper_args.data[2]))
        => helper_out[1] = helper_out[2]

\* the key of the only step of the plan of helper_args
BodyKey ==
    KeyOfStep(helper_args.plan[1].nodeId, helper_args.plan[1].type,
              helper_args.plan[1].data, EmptyDict, helper_args.now)

BodyDone == pc = "returned" /\ helper_args.fn = "body"

\* C23: an iteration entered with forceRerun false and the key of its step
\* in the memo does not invoke the handler and records the step as
\* idempotent, and when the cached result is ok the context afterwards is
\* the context of an iteration that found no memo entry and whose handler
\* returned that result; an iteration entered with forceRerun true invokes
\* the handler and records what it returned, whatever the memo holds
C23_ReplayEqualsFresh ==
    BodyDone =>
        LET a == helper_args
            hit == BodyKey \in DOMAIN a.loc.memo
            last == helper_out.loc.results[Len(helper_out.loc.results)]
            fresh == LoopBody([a.loc EXCEPT !.memo = EmptyDict], a.plan, None,
                              TRUE, a.loc.memo[BodyKey], a.now)
        IN  /\ (~a.force /\ hit) =>
                   /\ ~helper_out.invoked
                   /\ last.what = "idempotent"
                   /\ last.node = a.plan[1].nodeId
                   /\ last.result = a.loc.memo[BodyKey]
                   /\ a.loc.memo[BodyKey].ok =>
                          helper_out.loc.context = fresh.context
            /\ a.force =>
                   /\ helper_out.invoked
                   /\ ~a.result.raised =>
                          /\ last.what = "executed"
                          /\ last.result = a.result

\* a createSound step answered from the memo: the id of the cached result is
\* in the context as objectId
C23_Witness ==
    /\ BodyDone
    /\ ~helper_args.force
    /\ BodyKey \in DOMAIN helper_args.loc.memo
    /\ ~helper_out.invoked
    /\ IdTable[1] \in DOMAIN helper_out.loc.context
    /\ "objectId" \in DOMAIN helper_out.loc.context[IdTable[1]]
    /\ helper_out.loc.context[IdTable[1]]["objectId"] = Obj

\* C24: after the outputs of a result were exported, the entry of the node
\* in the context has every declared output field that the result data has
\* under its own name, with the value of that key, and has objectId with the
\* value of the key id exactly when objectId is declared and the data has id
\* but no key objectId; it has no other field
C24_ExportOwnNameFirst ==
    (pc = "returned" /\ helper_args.fn = "export") =>
        LET d == helper_args.result_data
            fields == Range(helper_args.output_fields)
            entry == helper_out[helper_args.node_id]
            aliased == "objectId" \in fields /\ "id" \in DOMAIN d
                       /\ "objectId" \notin DOMAIN d
        IN  /\ helper_args.node_id \in DOMAIN helper_out
            /\ DOMAIN entry = (fields \cap DOMAIN d)
                                  \cup (IF aliased THEN {"objectId"} ELSE {})
            /\ \A f \in fields \cap DOMAIN d : entry[f] = d[f]
            /\ aliased => entry["objectId"] = d["id"]

-----------------------------------------------------------------------------
(* Claims on the context of a run of execute_workflow_v2 *)

\* results has an entry that says node n was executed with ok or replayed
Succeeded(res, n) ==
    \E i \in DOMAIN res :
        res[i].node = n /\ res[i].ok /\ res[i].what \in {"executed", "idempotent"}

\* C25: within one call of execute_workflow_v2 an entry of the context, once
\* written, is never written again; a step of the loop adds an entry only
\* for the node of the step it handles, whose entry it has just appended to
\* results as executed with ok or as replayed, and with declared outputs of
\* that node only; so every node that has an entry has succeeded
C25_ContextWrittenOnce ==
    [][(pc = "running" /\ run_no' = run_no) =>
          /\ \A n \in DOMAIN context :
                 n \in DOMAIN context' /\ context'[n] = context[n]
          /\ \A n \in DOMAIN context' \ DOMAIN context :
                 /\ n = Plan[idx].nodeId
                 /\ Len(results') = Len(results) + 1
                 /\ results'[Len(results')].node = n
                 /\ results'[Len(results')].ok
                 /\ results'[Len(results')].what \in {"executed", "idempotent"}
                 /\ DOMAIN context'[n] \subseteq Range(Plan[idx].spec.outputs)
          /\ \A n \in DOMAIN context' : Succeeded(results', n)]_vars

\* a run that was resumed at its second step and halted at its third: the
\* context has the outputs of the second node only
C25_Witness ==
    /\ pc = "returned"
    /\ Len(Plan) = 3 /\ Len(results) = 3
    /\ results[1].what = "skipped"
    /\ results[2].what = "executed" /\ results[2].ok
    /\ results[3].what = "executed" /\ ~results[3].ok
    /\ DOMAIN context = {Plan[2].nodeId}
    /\ DOMAIN context[Plan[2].nodeId] = {"objectId"}

-----------------------------------------------------------------------------
(* Claims on the data of a compiled step *)

\* C26: in a plan, a required field that the node's data has with a value
\* other than None and the empty string holds that value, whether or not an
\* incoming edge comes from a node that produces the field
C26_SuppliedValueKept ==
    (Compiled /\ compilation.ok) =>
        \A k \in DOMAIN compilation.plan :
            LET step == compilation.plan[k]
                node == NodeMap(flow.nodes, step.nodeId)
            IN  \A field \in Range(step.spec.required) :
                    Supplied(node, field) =>
                        step.data[field] = node.data[field]

-----------------------------------------------------------------------------
(* Claims on references that cannot be parsed *)

\* the value is a string that begins with "$from:" and has not exactly four
\* segments with "$output" as the third
Malformed(v) ==
    /\ v.t = "str" /\ Len(v.s) >= 2 /\ v.s[1] = "$from" /\ v.s[2] = ":"
    /\ BadFormat(Split(v.s))

HasMalformed(data) == \E field \in DOMAIN data : Malformed(data[field])

\* C28: a step whose data holds a malformed reference and which was not
\* skipped is recorded as failed with RESOLUTION_FAILED, its entry is the
\* last one and the call has returned ok=false with stopAt naming it; its
\* handler was not invoked, and no data handed to a handler holds a
\* malformed reference
C28_MalformedReferenceFails ==
    \A i \in DOMAIN results :
        /\ (HasMalformed(Plan[i].data) /\ results[i].what # "skipped") =>
               /\ results[i].what = "failed"
               /\ results[i].code = "RESOLUTION_FAILED"
               /\ i = Len(results)
               /\ pc = "returned"
               /\ ~ret.ok /\ ret.stopped
               /\ ret.stopAt = Plan[i].nodeId
               /\ ~Invoked(Plan[i].nodeId)
        /\ results[i].what = "executed" => ~HasMalformed(results[i].data)

\* the third step holds the reference to the node a:b, which ran before it
C28_Witness ==
    /\ pc = "returned"
    /\ Len(results) = 3
    /\ HasMalformed(Plan[3].data)
    /\ results[2].what = "executed" /\ results[2].ok
    /\ results[2].node = IdTable[2]
    /\ results[3].code = "RESOLUTION_FAILED"

-----------------------------------------------------------------------------
(* Claims on the errors of compile_workflow *)

\* C29: a workflow that compile_workflow rejects with GRAPH_CYCLE has a
\* cycle in its edge relation
C29_CycleErrorMeansCycle ==
    (Compiled /\ Len(compilation.errors) >= 1
        /\ compilation.errors[1].code = "GRAPH_CYCLE") => HasCycle(flow)

-----------------------------------------------------------------------------
(* Claims on the memo within one call of execute_workflow_v2 *)

\* how often the handler of the node was invoked in the current call
Invocations(node_id) ==
    Cardinality({j \in DOMAIN RunCalls : RunCalls[j].node = node_id})

\* C30: in a call of execute_workflow_v2 no entry of results is idempotent;
\* the handler of a step recorded as executed was invoked exactly once, the
\* handler of a step recorded as skipped or failed was not invoked, and the
\* handler of any step of the plan was invoked at most once
C30_MemoNeverHit ==
    (run_no >= 1 /\ compilation.ok /\ ~dry_run) =>
        /\ \A i \in DOMAIN results :
               /\ results[i].what # "idempotent"
               /\ results[i].what = "executed" => Invocations(results[i].node) = 1
               /\ results[i].what \in {"skipped", "failed"} =>
                      Invocations(results[i].node) = 0
        /\ \A k \in DOMAIN Plan : Invocations(Plan[k].nodeId) <= 1

\* two createSound steps with the same data, both executed without forced
\* rerun
C30_Witness ==
    /\ pc = "returned" /\ ret.ok /\ ~force_rerun
    /\ Len(results) >= 2
    /\ Plan[1].type = Plan[2].type
    /\ Plan[1].data = Plan[2].data
    /\ results[1].what = "executed"
    /\ results[2].what = "executed"
    /\ results[1].result = results[2].result

-----------------------------------------------------------------------------
(* Claims on the order of execution, checked under Spec *)

\* the step holds, in field key, the reference the compiler wrote for the
\* source of the i-th edge: the edge ends at the node of the step and the
\* data the client gave for the node does not hold that text
Injected(step, key, i) ==
    LET node == flow.nodes[IndexOfNode(flow, step.nodeId)]
    IN  /\ flow.edges[i].target = step.nodeId
        /\ step.data[key] = Reference(flow.edges[i].source, key)
        /\ key \in DOMAIN node.data => node.data[key] # step.data[key]

\* the handler of node n was invoked in the current call and returned ok
RanOk(n) ==
    \E c \in DOMAIN calls :
        calls[c].node = n /\ calls[c].run = run_no /\ calls[c].ok

\* "Nodo source non trovato nel contesto": the text has the four parts and
\* the second one is no key of the context
SourceMissing(v, ctx) ==
    LET parts == Split(v.s)
    IN  ~BadFormat(parts) /\ Str(parts[2]) \notin DOMAIN ctx

\* C31: in a call without resumeFrom, when the loop reaches a step that holds
\* a reference "$from:S:$output:f" injected by the compiler, the handler of
\* node S has returned ok in this call, S is a key of the context, and the
\* lookup of the reference does not fail for a source missing in the context.
C31_WiredSourceInContext ==
    (pc = "running" /\ resume_from = None /\ idx <= Len(compilation.plan)) =>
        LET step == compilation.plan[idx]
        IN  \A key \in DOMAIN step.data, i \in DOMAIN flow.edges :
                Injected(step, key, i) =>
                    /\ RanOk(flow.edges[i].source)
                    /\ flow.edges[i].source \in DOMAIN context
                    /\ ~SourceMissing(step.data[key], context)

\* the loop is at a step with an injected reference to the first node, whose
\* handler returned ok without any data
C31_Witness ==
    /\ pc = "running" /\ resume_from = None /\ idx <= Len(compilation.plan)
    /\ \E key \in DOMAIN compilation.plan[idx].data, i \in DOMAIN flow.edges :
           /\ Injected(compilation.plan[idx], key, i)
           /\ flow.edges[i].source = IdTable[1]
           /\ context[IdTable[1]] = EmptyDict

\* the entries of res are for the first steps of the plan, one for each and
\* in the order of the plan
FollowsPlan(res) ==
    /\ Len(res) <= Len(compilation.plan)
    /\ \A i \in DOMAIN res : res[i].node = compilation.plan[i].nodeId

\* the result list has an entry for every step of the plan, none with ok false
CoversPlan(res) ==
    /\ FollowsPlan(res)
    /\ Len(res) = Len(compilation.plan)
    /\ \A i \in DOMAIN res : res[i].ok

\* the steps the loop has been through: those before idx, and the one at idx
\* when the call returned from inside the loop
Processed ==
    IF pc = "returned" /\ ~ret.ok THEN idx ELSE idx - 1

\* C32 as stated: at every point of a call the node ids of results are those
\* of the first processed steps of the plan, one entry each, and a call that
\* returns ok=true returns one entry for every step of the plan, none of
\* them with ok false.
C32_ResultsFollowPlan ==
    /\ (pc \in {"running", "returned", "raised"} /\ compilation.ok) =>
           FollowsPlan(results)
    /\ (pc = "running" \/ (pc = "returned" /\ compilation.ok /\ ~dry_run)) =>
           Len(results) = Processed
    /\ (pc = "returned" /\ ret.ok) => CoversPlan(ret.results)

\* C32 for calls that enter the loop: the same, where the call that returns
\* ok=true is not a dry run (a dry run returns ok=true with an empty result
\* list and the plan).
C32_ResultsFollowPlanUnlessDry ==
    /\ (pc \in {"running", "returned", "raised"} /\ compilation.ok) =>
           FollowsPlan(results)
    /\ (pc = "running" \/ (pc = "returned" /\ compilation.ok /\ ~dry_run)) =>
           Len(results) = Processed
    /\ (pc = "returned" /\ ret.ok /\ ~dry_run) => CoversPlan(ret.results)

\* a call with resumeFrom returned ok=true after three steps, the first one
\* skipped
C32_Witness ==
    /\ pc = "returned" /\ ret.ok /\ ~dry_run
    /\ Len(ret.results) = 3
    /\ ret.results[1].what = "skipped"
    /\ ret.results[2].what = "executed"

\* C33 as stated: a call with a resumeFrom that is the node id of no step of
\* a plan with steps does not return ok=true.
C33_UnknownResumeNotOk ==
    (/\ pc = "returned" /\ compilation.ok /\ ~dry_run
     /\ Len(compilation.plan) > 0
     /\ resume_from # None /\ resume_from \notin Range(PlanIds))
        => ~ret.ok

-----------------------------------------------------------------------------
(* Claims on the data of a compiled step, checked under SpecCompile *)

\* the field of the step holds a reference to a node with an edge to the
\* node of the step
AutoWired(step, field) ==
    \E i \in DOMAIN flow.edges :
        /\ flow.edges[i].target = step.nodeId
        /\ step.data[field] = Reference(flow.edges[i].source, field)

\* C34: in a plan returned with ok=true the data of a step has the fields of
\* the data of its node, each with the value of the node, except that a
\* field of the type's required list may be added or changed to a reference
\* to a node with an edge to the node; no field outside the required list is
\* added, removed or changed, no default of an optional input among them.
C34_OnlyRequiredFieldsWired ==
    (Compiled /\ compilation.ok) =>
        \A k \in DOMAIN compilation.plan :
            LET step == compilation.plan[k]
                node == flow.nodes[IndexOfNode(flow, step.nodeId)]
                required == Range(RegistryGet(node.type).required)
            IN  /\ DOMAIN node.data \subseteq DOMAIN step.data
                /\ DOMAIN step.data \subseteq DOMAIN node.data \cup required
                /\ \A field \in DOMAIN step.data :
                       \/ /\ field \in DOMAIN node.data
                          /\ step.data[field] = node.data[field]
                       \/ /\ field \in required
                          /\ AutoWired(step, field)

\* a step with a field outside the required list that is named like an
\* output of the node before it, and with an auto-wired required field
C34_Witness ==
    /\ Compiled /\ compilation.ok
    /\ \E k \in DOMAIN compilation.plan :
           LET step == compilation.plan[k]
               node == flow.nodes[IndexOfNode(flow, step.nodeId)]
           IN  /\ node.type = "audioImport"
               /\ "path" \in DOMAIN node.data
               /\ step.data["path"] = Str(<<>>)
               /\ "objectId" \notin DOMAIN node.data
               /\ AutoWired(step, "objectId")

-----------------------------------------------------------------------------
(* Claims on the dispatch of handlers, checked under Spec *)

\* the list has an entry of _fail_result with the code UNKNOWN_NODE_TYPE
UnknownTypeIn(res) ==
    \E i \in DOMAIN res : res[i].code = "UNKNOWN_NODE_TYPE"

\* C35: with the registry as _register_builtin_nodes filled it, every step
\* of a plan that execute_workflow_v2 runs has a registered type, and no
\* entry of results, in the loop or in the value returned, has the code
\* UNKNOWN_NODE_TYPE.
C35_NoUnknownTypeAtRun ==
    /\ (pc \in {"running", "returned", "raised"} /\ compilation.ok) =>
           \A k \in DOMAIN compilation.plan :
               RegistryGet(compilation.plan[k].type).registered
    /\ ~UnknownTypeIn(results)
    /\ ret.returned => ~UnknownTypeIn(ret.results)

\* the loop stands at an audioImport step after the handler of a createSound
\* step was dispatched in the same call
C35_Witness ==
    /\ pc = "running" /\ idx <= Len(compilation.plan)
    /\ compilation.plan[idx].type = "audioImport"
    /\ \E c \in DOMAIN calls : calls[c].run = run_no /\ calls[c].ok

-----------------------------------------------------------------------------
(* One call of execute_workflow_v2 with compile_workflow followed statement *)
(* by statement through its while loop: every step of the specification is *)
(* one pass of a loop of the code, and the thread that runs the call goes   *)
(* on to the next statement as long as there is one.                        *)

MaxLiveNodes == 2   \* nodes of a workflow whose loops are followed
MaxLiveEdges == 2   \* edges of a workflow whose loops are followed

\* graphs of createSound nodes with every edge list between them: duplicate
\* edges, self-loops and cycles included, and for the graph of one node the
\* edges to and from a node that does not exist
IsLiveFlow(f) ==
    \E k \in 0..MaxLiveNodes, n \in 0..MaxLiveEdges :
        \E edges \in [1..n -> PairEdges(IF k = 1 THEN 2 ELSE k)] :
            f = Flow([i \in 1..k |->
                         Node(IdTable[i], Kind("createSound", Dict1("name", Foo)))],
                     edges)

\* a call with or without dry_run, resuming from nothing, from the first node
\* or from an id no node has; the ids of the nodes differ, so no key is met
\* twice in one call and force_rerun changes nothing
InitLive ==
    /\ IsLiveFlow(flow)
    /\ pc = "start"
    /\ compilation = NotCompiled
    /\ dry_run \in BOOLEAN
    /\ resume_from \in {None, IdTable[1], IdTable[Len(flow.nodes) + 1]}
    /\ force_rerun = FALSE
    /\ run_no = 0
    /\ idx = 1
    /\ skip_until = FALSE
    /\ context = EmptyDict
    /\ memo = EmptyDict
    /\ results = <<>>
    /\ ret = NoReturn
    /\ calls = <<>>
    /\ frames = <<>>
    /\ heap = <<>>
    /\ helper_args = <<>>
    /\ helper_out = <<>>
    /\ kahn = NotSorting

\* compile_workflow from the cycle check to its return, ordered being the
\* list the while loop has built
CompileFromOrder(f, ordered) ==
    LET nodes == f.nodes
        edges == f.edges
        producers == BuildOutputMap(ordered, nodes)
        failing == {i \in DOMAIN ordered :
                        StepError(nodes, edges, producers, ordered[i]) # NoError}
    IN  IF CycleDetected(ordered, nodes)
            THEN CompileFailed(CompilationError("GRAPH_CYCLE", None, {}))
        ELSE IF failing # {}
            THEN LET first == CHOOSE i \in failing : \A j \in failing : i <= j
                 IN  CompileFailed(StepError(nodes, edges, producers, ordered[first]))
        ELSE [ok |-> TRUE,
              plan |-> [i \in DOMAIN ordered |->
                            PlanStep(nodes, edges, producers, ordered[i])],
              errors |-> <<>>,
              warnings |-> <<>>]

\* execute_workflow_v2 from the return of compile_workflow to the start of
\* the loop over the plan
EnterWith(c) ==
    /\ compilation' = c
    /\ IF ~c.ok
           THEN /\ ret' = Returned({"ok", "stopped", "stopAt", "errors", "results"},
                                   FALSE, TRUE, None, <<>>, c.errors, <<>>)
                /\ pc' = "returned"
                /\ UNCHANGED <<idx, skip_until, context, memo, results>>
       ELSE IF IsDryRun(dry_run)
           THEN /\ ret' = Returned({"ok", "dryRun", "plan", "results",
                                    "executionId", "timestamp"},
                                   TRUE, FALSE, None, <<>>, <<>>, c.plan)
                /\ pc' = "returned"
                /\ UNCHANGED <<idx, skip_until, context, memo, results>>
       ELSE /\ ret' = NoReturn
            /\ pc' = "running"
            /\ idx' = 1
            /\ skip_until' = (resume_from # None)
            /\ context' = EmptyDict
            /\ memo' = EmptyDict
            /\ results' = <<>>

\* the call enters compile_workflow: node_map, the loop over the edges, the
\* initialisation of in_degree, ordered and queue; an error raised on the
\* way is caught and returned
KahnStart ==
    /\ pc = "start"
    /\ run_no' = run_no + 1
    /\ IF NodeWithoutId(flow.nodes) \/ EdgeError(flow.nodes, flow.edges, 1) # NoError
           THEN /\ EnterWith(compile_workflow(flow))
                /\ UNCHANGED kahn
       ELSE LET indeg == InDegree(flow.nodes, flow.edges)
            IN  /\ kahn' = [ordered |-> <<>>,
                            queue |-> SelectSeq(InDegreeKeys(flow.nodes, flow.edges),
                                                LAMBDA id : indeg[id] = 0),
                            in_degree |-> indeg]
                /\ pc' = "toposort"
                /\ UNCHANGED <<compilation, ret, idx, skip_until, context, memo,
                               results>>
    /\ UNCHANGED <<flow, dry_run, resume_from, force_rerun, calls, frames, heap,
                   helper_args, helper_out>>

\* one pass of "while queue"
KahnStep ==
    /\ pc = "toposort"
    /\ kahn.queue # <<>>
    /\ LET current == Head(kahn.queue)
           r == Relax(Successors(flow.edges, current), 1, kahn.in_degree,
                      Tail(kahn.queue))
       IN  kahn' = [ordered |-> Append(kahn.ordered, current),
                    queue |-> r.queue,
                    in_degree |-> r.indeg]
    /\ UNCHANGED <<flow, pc, compilation, dry_run, resume_from, force_rerun,
                   run_no, idx, skip_until, context, memo, results, ret, calls,
                   frames, heap, helper_args, helper_out>>

\* the queue is empty: the rest of compile_workflow, and execute_workflow_v2
\* up to its loop; the plan loop works on copies of the data of the nodes
\* (NodeDataAfter), the workflow is what it was
KahnEnd ==
    /\ pc = "toposort"
    /\ kahn.queue = <<>>
    /\ EnterWith(CompileFromOrder(flow, kahn.ordered))
    /\ UNCHANGED <<flow, dry_run, resume_from, force_rerun, run_no, calls, frames,
                   heap, helper_args, helper_out, kahn>>

NextLive == KahnStart \/ KahnStep \/ KahnEnd \/ Step \/ Return

\* the thread of the call is not suspended for ever: it goes on to its next
\* statement, of which there is at most one kind at a time
Fairness == WF_vars(NextLive)

SpecLive == InitLive /\ [][NextLive]_vars /\ Fairness

\* no element occurs twice in the sequence
NoRepeat(s) == \A i, j \in DOMAIN s : s[i] = s[j] => i = j

\* the call is over: it returned, or an exception left it
Over == pc \in {"returned", "raised"}

\* C36: the while loop of compile_workflow appends a node id to ordered at
\* most once, duplicate edges or not, and ends; the loop over the plan
\* handles the steps in order, each at most once, the handler of a node
\* being invoked at most once; and every call that is started is over after
\* finitely many steps.
C36_CallTerminates ==
    /\ [](pc = "toposort" => NoRepeat(kahn.ordered))
    /\ [](pc = "toposort" =>
              Len(kahn.ordered) + Len(kahn.queue) <= Len(flow.nodes))
    /\ [](pc \in {"running", "returned", "raised"} /\ compilation.ok =>
              /\ FollowsPlan(results)
              /\ NoRepeat([c \in DOMAIN calls |-> calls[c].node]))
    /\ [][pc = "running" /\ pc' = "running" => idx' = idx + 1]_vars
    /\ (pc = "start") ~> Over

\* the call is over after a while loop that went over two nodes joined by
\* the same edge twice, and a loop over the plan that invoked both handlers
C36_Witness ==
    /\ Over /\ kahn # NotSorting
    /\ Len(flow.edges) = 2 /\ flow.edges[1] = flow.edges[2]
    /\ flow.edges[1].source # flow.edges[1].target
    /\ Len(kahn.ordered) = 2
    /\ Len(calls) = 2

====
